---- MODULE Spec2Model ----
(***************************************************************************)
(* Layout engine of video-collage-cli (src/src/layout.ts).                 *)
(*                                                                         *)
(* The engine is a set of synchronous functions.  The state machine is a   *)
(* caller that builds a LayoutItem[] array, calls one exported function    *)
(* on it and then passes the returned rectangles to clampPositions, as     *)
(* generateCollage does (src/src/ffmpeg.ts:388-400).                       *)
(*                                                                         *)
(* JavaScript numbers are modelled as exact rationals <<n, d>> (d > 0,     *)
(* lowest terms); Math.floor, Math.ceil, Math.round and Math.sqrt are      *)
(* computed exactly on them.  An optional parameter or field is <<>> when  *)
(* it is absent (undefined) and <<v>> when it is given.                    *)
(***************************************************************************)
EXTENDS Integers, Sequences, FiniteSets

VARIABLES
    items,      \* the caller's LayoutItem[] array
    snapshot,   \* copy of the caller's array taken just before the call
    called,     \* exported function called last, "none" before any call
    args,       \* arguments of that call other than the array
    result,     \* the CellPosition[] the call returned
    positions   \* the caller's CellPosition[] array given to clampPositions

vars == <<items, snapshot, called, args, result, positions>>

----------------------------------------------------------------------------
(* Bounds of the model *)

\* longest LayoutItem[] array the caller builds
MaxItems == 3

\* longest CellPosition[] array of a custom layout
MaxRects == 1

----------------------------------------------------------------------------
(* JavaScript numbers as exact rationals *)

Abs(n) == IF n < 0 THEN -n ELSE n

Max(a, b) == IF a < b THEN b ELSE a

Min(a, b) == IF b < a THEN b ELSE a

RECURSIVE Gcd(_, _)
Gcd(a, b) == IF b = 0 THEN a ELSE Gcd(b, a % b)

Rat(n, d) ==
    LET g == Gcd(Abs(n), Abs(d))
        s == IF d < 0 THEN -1 ELSE 1
    IN  <<(s * n) \div g, (s * d) \div g>>

Num(n) == <<n, 1>>

RAdd(a, b) ==
    LET g == Gcd(a[2], b[2])
    IN  Rat(a[1] * (b[2] \div g) + b[1] * (a[2] \div g), (a[2] \div g) * b[2])

RSub(a, b) == RAdd(a, <<-b[1], b[2]>>)

RMul(a, b) ==
    LET g1 == Gcd(Abs(a[1]), b[2])
        g2 == Gcd(Abs(b[1]), a[2])
    IN  <<(a[1] \div g1) * (b[1] \div g2), (a[2] \div g2) * (b[2] \div g1)>>

\* a / b for b # 0 (no call of the model divides by zero)
RDiv(a, b) == RMul(a, Rat(b[2], b[1]))

\* a < b, by comparing the integer parts and then the reciprocals of the
\* fractional parts (no product, so no intermediate exceeds the operands)
RECURSIVE RLess(_, _)
RLess(a, b) ==
    LET fa == a[1] \div a[2]
        fb == b[1] \div b[2]
        ra == a[1] % a[2]
        rb == b[1] % b[2]
    IN  IF fa # fb THEN fa < fb
        ELSE IF rb = 0 THEN FALSE
        ELSE IF ra = 0 THEN TRUE
        ELSE RLess(<<b[2], rb>>, <<a[2], ra>>)

RMax(a, b) == IF RLess(a, b) THEN b ELSE a

RMin(a, b) == IF RLess(b, a) THEN b ELSE a

\* Math.floor
Floor(a) == a[1] \div a[2]

\* Math.ceil
Ceil(a) == -((-a[1]) \div a[2])

\* Bisection for floor(sqrt(n)): lo * lo <= n < hi * hi throughout
RECURSIVE SqrtFloorBetween(_, _, _)
SqrtFloorBetween(n, lo, hi) ==
    IF hi - lo <= 1 THEN lo
    ELSE LET mid == (lo + hi) \div 2
         IN  IF mid * mid <= n
             THEN SqrtFloorBetween(n, mid, hi)
             ELSE SqrtFloorBetween(n, lo, mid)

\* Math.floor(Math.sqrt(a)) for 0 <= a < 2^30: floor(sqrt(a)) = floor(sqrt(floor(a)))
FloorSqrt(a) == SqrtFloorBetween(Floor(a), 0, Min(Floor(a) + 1, 32768))

RECURSIVE SqrtCeilFrom(_, _)
SqrtCeilFrom(n, k) == IF k * k >= n THEN k ELSE SqrtCeilFrom(n, k + 1)

\* Math.ceil(Math.sqrt(n)) for an integer n >= 0
CeilSqrt(n) == SqrtCeilFrom(n, 0)

RECURSIVE SqrtRoundFrom(_, _)
SqrtRoundFrom(a, k) ==
    IF 4 * a[1] < (2 * k + 1) * (2 * k + 1) * a[2] THEN k ELSE SqrtRoundFrom(a, k + 1)

\* Math.round(Math.sqrt(a)) for a >= 0: the k with k - 1/2 <= sqrt(a) < k + 1/2
RoundSqrt(a) == SqrtRoundFrom(a, 0)

----------------------------------------------------------------------------
(* Optional values *)

\* !v of JavaScript for an optional number: undefined or 0
Falsy(opt) == opt = <<>> \/ opt[1] = 0

\* a parameter default: (p = dflt)
OrDefault(opt, dflt) == IF opt = <<>> THEN dflt ELSE opt[1]

----------------------------------------------------------------------------
(* Sequence helpers *)

RECURSIVE SumAspect(_)
SumAspect(row) ==
    IF row = <<>> THEN Num(0) ELSE RAdd(SumAspect(Tail(row)), Head(row).aspect)

\* Array.prototype.sort with comparator (a, b) => key(b) - key(a): stable and
\* descending.  keys[i] is the key of element i; the result lists the element
\* numbers in sorted order.  InsertDesc puts x after every element whose key
\* is greater than or equal to its own.
RECURSIVE InsertDesc(_, _, _)
InsertDesc(order, x, keys) ==
    IF order = <<>> THEN <<x>>
    ELSE IF RLess(keys[Head(order)], keys[x]) THEN <<x>> \o order
    ELSE <<Head(order)>> \o InsertDesc(Tail(order), x, keys)

RECURSIVE SortOrderFrom(_, _, _)
SortOrderFrom(keys, i, acc) ==
    IF i > Len(keys) THEN acc
    ELSE SortOrderFrom(keys, i + 1, InsertDesc(acc, i, keys))

SortDesc(arr, keys) ==
    LET order == SortOrderFrom(keys, 1, <<>>)
    IN  [i \in 1..Len(arr) |-> arr[order[i]]]

----------------------------------------------------------------------------
(* calculateGridLayout *)

\* calculateGridLayout emitting every slot of the grid (i < columns * rows)
\* instead of the first mediaCount; with columns = 0 the bound is NaN and the
\* loop body never runs
calculateGridLayoutAllSlots(mediaCount, canvasWidth, canvasHeight, columnsOpt, rowsOpt, gapOpt) ==
    LET gap == OrDefault(gapOpt, 0)
        derive == Falsy(columnsOpt) \/ Falsy(rowsOpt)
        columns == IF derive THEN CeilSqrt(mediaCount) ELSE columnsOpt[1]
        rows == IF derive THEN Ceil(Rat(mediaCount, columns)) ELSE rowsOpt[1]
        cellWidth == (canvasWidth - gap * (columns + 1)) \div columns
        cellHeight == (canvasHeight - gap * (rows + 1)) \div rows
        slots == IF columns = 0 THEN 0 ELSE columns * rows
    IN  [i \in 1..slots |->
            [x |-> gap + ((i - 1) % columns) * (cellWidth + gap),
             y |-> gap + ((i - 1) \div columns) * (cellHeight + gap),
             width |-> cellWidth,
             height |-> cellHeight,
             mediaIndex |-> i - 1]]

\* calculateGridLayout with the row computed from rows (Math.floor(i / rows))
calculateGridLayoutRowByRows(mediaCount, canvasWidth, canvasHeight, columnsOpt, rowsOpt, gapOpt) ==
    LET gap == OrDefault(gapOpt, 0)
        derive == Falsy(columnsOpt) \/ Falsy(rowsOpt)
        columns == IF derive THEN CeilSqrt(mediaCount) ELSE columnsOpt[1]
        rows == IF derive THEN Ceil(Rat(mediaCount, columns)) ELSE rowsOpt[1]
        cellWidth == (canvasWidth - gap * (columns + 1)) \div columns
        cellHeight == (canvasHeight - gap * (rows + 1)) \div rows
    IN  [i \in 1..mediaCount |->
            [x |-> gap + ((i - 1) % columns) * (cellWidth + gap),
             y |-> gap + ((i - 1) \div rows) * (cellHeight + gap),
             width |-> cellWidth,
             height |-> cellHeight,
             mediaIndex |-> i - 1]]

\* calculateGridLayout deriving only the value that is missing: a supplied
\* columns (or rows) is kept when the other one is absent
calculateGridLayoutKeepSupplied(mediaCount, canvasWidth, canvasHeight, columnsOpt, rowsOpt, gapOpt) ==
    LET gap == OrDefault(gapOpt, 0)
        columns == IF Falsy(columnsOpt) THEN CeilSqrt(mediaCount) ELSE columnsOpt[1]
        rows == IF Falsy(rowsOpt) THEN Ceil(Rat(mediaCount, columns)) ELSE rowsOpt[1]
        cellWidth == (canvasWidth - gap * (columns + 1)) \div columns
        cellHeight == (canvasHeight - gap * (rows + 1)) \div rows
    IN  [i \in 1..mediaCount |->
            [x |-> gap + ((i - 1) % columns) * (cellWidth + gap),
             y |-> gap + ((i - 1) \div columns) * (cellHeight + gap),
             width |-> cellWidth,
             height |-> cellHeight,
             mediaIndex |-> i - 1]]

\* The loop index i is 0-based in the source and 1-based here; mediaIndex is
\* the source's i.  columns, rows and the cell size are only read inside the
\* loop body, so for mediaCount = 0 (columns = 0) nothing is divided.
calculateGridLayout(mediaCount, canvasWidth, canvasHeight, columnsOpt, rowsOpt, gapOpt) ==
    LET gap == OrDefault(gapOpt, 0)
        derive == Falsy(columnsOpt) \/ Falsy(rowsOpt)
        columns == IF derive THEN CeilSqrt(mediaCount) ELSE columnsOpt[1]
        rows == IF derive THEN Ceil(Rat(mediaCount, columns)) ELSE rowsOpt[1]
        cellWidth == (canvasWidth - gap * (columns + 1)) \div columns
        cellHeight == (canvasHeight - gap * (rows + 1)) \div rows
    IN  [i \in 1..mediaCount |->
            [x |-> gap + ((i - 1) % columns) * (cellWidth + gap),
             y |-> gap + ((i - 1) \div columns) * (cellHeight + gap),
             width |-> cellWidth,
             height |-> cellHeight,
             mediaIndex |-> i - 1]]

----------------------------------------------------------------------------
(* calculateDynamicLayout and its row partitioner *)

Aspects(arr) == [i \in 1..Len(arr) |-> arr[i].aspect]

\* The for-of loop of partitionIntoRows over sorted[i..]: rows closed so far
\* and the row being filled.
RECURSIVE partitionLoop(_, _, _, _, _)
partitionLoop(sorted, i, rows, currentRow, targetItemsPerRow) ==
    IF i > Len(sorted) THEN [rows |-> rows, currentRow |-> currentRow]
    ELSE LET pushed == Append(currentRow, sorted[i])
         IN  IF Len(pushed) >= targetItemsPerRow
             THEN partitionLoop(sorted, i + 1, Append(rows, pushed), <<>>, targetItemsPerRow)
             ELSE partitionLoop(sorted, i + 1, rows, pushed, targetItemsPerRow)

targetRowsOf(arr, canvasWidth, canvasHeight) ==
    LET canvasAspect == Rat(canvasWidth, canvasHeight)
        avgAspect == RDiv(SumAspect(arr), Num(Len(arr)))
    IN  Max(1, RoundSqrt(RDiv(Num(Len(arr)), RDiv(canvasAspect, avgAspect))))

\* partitionIntoRows leaving a single leftover item in a row of its own
partitionIntoRowsKeepOrphan(arr, canvasWidth, canvasHeight, gap) ==
    LET sorted == SortDesc(arr, Aspects(arr))
        targetRows == targetRowsOf(arr, canvasWidth, canvasHeight)
        targetItemsPerRow == Ceil(Rat(Len(arr), targetRows))
        loop == partitionLoop(sorted, 1, <<>>, <<>>, targetItemsPerRow)
    IN  IF Len(loop.currentRow) > 0
        THEN Append(loop.rows, loop.currentRow)
        ELSE loop.rows

partitionIntoRows(arr, canvasWidth, canvasHeight, gap) ==
    LET sorted == SortDesc(arr, Aspects(arr))
        targetRows == targetRowsOf(arr, canvasWidth, canvasHeight)
        targetItemsPerRow == Ceil(Rat(Len(arr), targetRows))
        loop == partitionLoop(sorted, 1, <<>>, <<>>, targetItemsPerRow)
        rows == loop.rows
        currentRow == loop.currentRow
    IN  IF Len(currentRow) > 0
        THEN IF Len(currentRow) = 1 /\ Len(rows) > 0
             THEN IF Len(rows[Len(rows)]) <= targetItemsPerRow + 1
                  THEN [rows EXCEPT ![Len(rows)] = Append(@, currentRow[1])]
                  ELSE Append(rows, currentRow)
             ELSE Append(rows, currentRow)
        ELSE rows

\* availableWidth / totalAspect of one row
idealHeight(row, canvasWidth, gap) ==
    LET totalGaps == gap * (Len(row) - 1)
        availableWidth == canvasWidth - gap * 2 - totalGaps
    IN  RDiv(Num(availableWidth), SumAspect(row))

RECURSIVE totalIdealHeightOf(_, _, _)
totalIdealHeightOf(rows, canvasWidth, gap) ==
    IF rows = <<>> THEN Num(0)
    ELSE RAdd(totalIdealHeightOf(Tail(rows), canvasWidth, gap),
              idealHeight(Head(rows), canvasWidth, gap))

\* dynamicRowCells with the last-cell test one cell early (i === row.length - 2)
RECURSIVE dynamicRowCellsLastEarly(_, _, _, _, _, _, _)
dynamicRowCellsLastEarly(row, i, currentX, currentY, rowHeight, canvasWidth, gap) ==
    IF i > Len(row) THEN <<>>
    ELSE LET isLast == i = Len(row) - 1
             cellWidth == IF isLast
                          THEN canvasWidth - gap - currentX
                          ELSE Floor(RMul(Num(rowHeight), row[i].aspect))
         IN  <<[x |-> currentX,
                y |-> currentY,
                width |-> cellWidth,
                height |-> rowHeight,
                mediaIndex |-> row[i].index]>>
             \o dynamicRowCellsLastEarly(row, i + 1, currentX + cellWidth + gap, currentY,
                                         rowHeight, canvasWidth, gap)

\* The inner loop over one row from cell i on, currentX being the left edge
RECURSIVE dynamicRowCells(_, _, _, _, _, _, _)
dynamicRowCells(row, i, currentX, currentY, rowHeight, canvasWidth, gap) ==
    IF i > Len(row) THEN <<>>
    ELSE LET isLast == i = Len(row)
             cellWidth == IF isLast
                          THEN canvasWidth - gap - currentX
                          ELSE Floor(RMul(Num(rowHeight), row[i].aspect))
         IN  <<[x |-> currentX,
                y |-> currentY,
                width |-> cellWidth,
                height |-> rowHeight,
                mediaIndex |-> row[i].index]>>
             \o dynamicRowCells(row, i + 1, currentX + cellWidth + gap, currentY,
                                rowHeight, canvasWidth, gap)

\* rowHeightOf rounding up (Math.ceil)
rowHeightOfCeil(row, canvasWidth, gap, scaleFactor) ==
    Ceil(RMul(idealHeight(row, canvasWidth, gap), scaleFactor))

rowHeightOf(row, canvasWidth, gap, scaleFactor) ==
    Floor(RMul(idealHeight(row, canvasWidth, gap), scaleFactor))

\* The outer loop over the rows from row r on, currentY being the top edge
RECURSIVE dynamicRows(_, _, _, _, _, _)
dynamicRows(rows, r, currentY, scaleFactor, canvasWidth, gap) ==
    IF r > Len(rows) THEN <<>>
    ELSE IF Len(rows[r]) = 0
         THEN dynamicRows(rows, r + 1, currentY, scaleFactor, canvasWidth, gap)
    ELSE LET rowHeight == rowHeightOf(rows[r], canvasWidth, gap, scaleFactor)
         IN  dynamicRowCells(rows[r], 1, gap, currentY, rowHeight, canvasWidth, gap)
             \o dynamicRows(rows, r + 1, currentY + rowHeight + gap, scaleFactor,
                            canvasWidth, gap)

\* dynamicSingle taking the full-width branch also when the item's aspect
\* equals the canvas's (item.aspect >= canvasAspect)
dynamicSingleWiderOrEqual(item, canvasWidth, canvasHeight, gap) ==
    LET canvasAspect == Rat(canvasWidth, canvasHeight)
    IN  IF ~RLess(item.aspect, canvasAspect)
        THEN LET width == canvasWidth - gap * 2
                 height == Floor(RDiv(Num(width), item.aspect))
             IN  [x |-> gap,
                  y |-> (canvasHeight - height) \div 2,
                  width |-> width,
                  height |-> height,
                  mediaIndex |-> item.index]
        ELSE LET height == canvasHeight - gap * 2
                 width == Floor(RMul(Num(height), item.aspect))
             IN  [x |-> (canvasWidth - width) \div 2,
                  y |-> gap,
                  width |-> width,
                  height |-> height,
                  mediaIndex |-> item.index]

dynamicSingle(item, canvasWidth, canvasHeight, gap) ==
    LET canvasAspect == Rat(canvasWidth, canvasHeight)
    IN  IF RLess(canvasAspect, item.aspect)
        THEN LET width == canvasWidth - gap * 2
                 height == Floor(RDiv(Num(width), item.aspect))
             IN  [x |-> gap,
                  y |-> (canvasHeight - height) \div 2,
                  width |-> width,
                  height |-> height,
                  mediaIndex |-> item.index]
        ELSE LET height == canvasHeight - gap * 2
                 width == Floor(RMul(Num(height), item.aspect))
             IN  [x |-> (canvasWidth - width) \div 2,
                  y |-> gap,
                  width |-> width,
                  height |-> height,
                  mediaIndex |-> item.index]

scaleFactorOf(rows, canvasWidth, canvasHeight, gap) ==
    LET availableHeight == canvasHeight - gap * (Len(rows) + 1)
    IN  RDiv(Num(availableHeight), totalIdealHeightOf(rows, canvasWidth, gap))

calculateDynamicLayout(arr, canvasWidth, canvasHeight, gapOpt) ==
    LET gap == OrDefault(gapOpt, 0)
    IN  IF Len(arr) = 0 THEN <<>>
        ELSE IF Len(arr) = 1 THEN <<dynamicSingle(arr[1], canvasWidth, canvasHeight, gap)>>
        ELSE LET rows == partitionIntoRows(arr, canvasWidth, canvasHeight, gap)
                 scaleFactor == scaleFactorOf(rows, canvasWidth, canvasHeight, gap)
             IN  dynamicRows(rows, 1, gap, scaleFactor, canvasWidth, gap)

----------------------------------------------------------------------------
(* calculateMasonryLayout *)

\* The scan for the shortest column: the lowest c whose height is below every
\* earlier minimum (strict <, so the first of equal columns wins)
RECURSIVE shortestColumnFrom(_, _, _, _)
shortestColumnFrom(colHeights, c, minHeight, targetCol) ==
    IF c > Len(colHeights) THEN targetCol
    ELSE IF targetCol = 0 \/ colHeights[c] < minHeight
         THEN shortestColumnFrom(colHeights, c + 1, colHeights[c], c)
         ELSE shortestColumnFrom(colHeights, c + 1, minHeight, targetCol)

\* the scan with colHeights[c] <= minHeight: the last of equal columns wins
shortestColumnLastOfTies(colHeights) ==
    CHOOSE c \in 1..Len(colHeights) :
        /\ \A b \in 1..Len(colHeights) : colHeights[b] >= colHeights[c]
        /\ \A b \in (c + 1)..Len(colHeights) : colHeights[b] > colHeights[c]

\* columns are 1-based here: the source's targetCol is shortestColumn - 1
shortestColumn(colHeights) == shortestColumnFrom(colHeights, 1, 0, 0)

\* The placement loop from item i on
RECURSIVE masonryPlace(_, _, _, _, _, _)
masonryPlace(arr, i, colHeights, placed, colWidth, gap) ==
    IF i > Len(arr) THEN [positions |-> placed, colHeights |-> colHeights]
    ELSE LET targetCol == shortestColumn(colHeights)
             height == Floor(RDiv(Num(colWidth), arr[i].aspect))
             pos == [x |-> gap + (targetCol - 1) * (colWidth + gap),
                     y |-> colHeights[targetCol],
                     width |-> colWidth,
                     height |-> height,
                     mediaIndex |-> arr[i].index]
         IN  masonryPlace(arr, i + 1,
                          [colHeights EXCEPT ![targetCol] = @ + height + gap],
                          Append(placed, pos), colWidth, gap)

RECURSIVE MaxOf(_)
MaxOf(seq) == IF Len(seq) = 1 THEN seq[1] ELSE Max(seq[1], MaxOf(Tail(seq)))

\* masonryScale rounding up (Math.ceil)
masonryScaleCeil(placed, scale) ==
    [i \in 1..Len(placed) |->
        [placed[i] EXCEPT !.y = Ceil(RMul(Num(@), scale)),
                          !.height = Ceil(RMul(Num(@), scale))]]

\* masonryScale correcting the heights only (pos.y left as placed)
masonryScaleHeightOnly(placed, scale) ==
    [i \in 1..Len(placed) |->
        [placed[i] EXCEPT !.height = Floor(RMul(Num(@), scale))]]

masonryScale(placed, scale) ==
    [i \in 1..Len(placed) |->
        [placed[i] EXCEPT !.y = Floor(RMul(Num(@), scale)),
                          !.height = Floor(RMul(Num(@), scale))]]

calculateMasonryLayout(arr, canvasWidth, canvasHeight, gapOpt, columnCount) ==
    LET gap == OrDefault(gapOpt, 0)
        cols == IF Falsy(columnCount) THEN Max(2, CeilSqrt(Len(arr))) ELSE columnCount[1]
        colWidth == (canvasWidth - gap * (cols + 1)) \div cols
        loop == masonryPlace(arr, 1, [c \in 1..cols |-> gap], <<>>, colWidth, gap)
        maxHeight == MaxOf(loop.colHeights)
    IN  IF Len(arr) = 0 THEN <<>>
        ELSE IF maxHeight > canvasHeight
             THEN masonryScale(loop.positions, Rat(canvasHeight - gap, maxHeight))
             ELSE loop.positions

----------------------------------------------------------------------------
(* calculateTreemapLayout *)

Areas(arr) == [i \in 1..Len(arr) |-> arr[i].area]

RECURSIVE SumArea(_)
SumArea(row) ==
    IF row = <<>> THEN Num(0) ELSE RAdd(SumArea(Tail(row)), Head(row).area)

RECURSIVE worstOver(_, _, _, _)
worstOver(row, i, rowWidth, worst) ==
    IF i > Len(row) THEN worst
    ELSE LET itemHeight == RDiv(row[i].area, rowWidth)
             aspect == RMax(RDiv(rowWidth, itemHeight), RDiv(itemHeight, rowWidth))
         IN  worstOver(row, i + 1, rowWidth, RMax(worst, aspect))

worstAspectRatio(row, side) ==
    LET totalArea == SumArea(row)
        rowWidth == RDiv(totalArea, side)
    IN  worstOver(row, 1, rowWidth, Num(0))

\* The loop of layoutRow from item i on; the result is the row
RECURSIVE layoutRowLoop(_, _, _, _, _)
layoutRowLoop(arr, i, row, bestAspect, side) ==
    IF i > Len(arr) THEN row
    ELSE LET testRow == Append(row, arr[i])
             testAspect == worstAspectRatio(testRow, side)
         IN  IF RLess(bestAspect, testAspect) THEN row
             ELSE layoutRowLoop(arr, i + 1, testRow, testAspect, side)

\* layoutRow starting from an empty row with bestAspect = 0: the first item
\* is tested like the others, and rejected
layoutRowFromEmptyRow(arr, side) ==
    IF Len(arr) = 0 THEN [row |-> <<>>, rest |-> <<>>]
    ELSE IF Len(arr) = 1 THEN [row |-> arr, rest |-> <<>>]
    ELSE [row |-> <<>>, rest |-> arr]

\* layoutRow closing every row after its first item
layoutRowFirstOnly(arr, side) ==
    IF Len(arr) = 0 THEN [row |-> <<>>, rest |-> <<>>]
    ELSE [row |-> <<arr[1]>>, rest |-> Tail(arr)]

layoutRow(arr, side) ==
    IF Len(arr) = 0 THEN [row |-> <<>>, rest |-> <<>>]
    ELSE IF Len(arr) = 1 THEN [row |-> arr, rest |-> <<>>]
    ELSE LET row == layoutRowLoop(arr, 2, <<arr[1]>>, worstAspectRatio(<<arr[1]>>, side), side)
         IN  [row |-> row, rest |-> SubSeq(arr, Len(row) + 1, Len(arr))]

\* The cells of one closed row from member i on, offset being the running
\* extent along the long axis
RECURSIVE squarifyRowCells(_, _, _, _, _, _, _)
squarifyRowCells(row, i, offset, rowSize, isWide, currentRect, gap) ==
    IF i > Len(row) THEN <<>>
    ELSE LET itemSize == RDiv(row[i].area, rowSize)
             halfGap == Rat(gap, 2)
             pos == IF isWide
                    THEN [x |-> Floor(currentRect.x),
                          y |-> Floor(RAdd(currentRect.y, offset)),
                          width |-> Floor(RSub(rowSize, halfGap)),
                          height |-> Floor(RSub(itemSize, halfGap)),
                          mediaIndex |-> row[i].index]
                    ELSE [x |-> Floor(RAdd(currentRect.x, offset)),
                          y |-> Floor(currentRect.y),
                          width |-> Floor(RSub(itemSize, halfGap)),
                          height |-> Floor(RSub(rowSize, halfGap)),
                          mediaIndex |-> row[i].index]
         IN  <<pos>> \o squarifyRowCells(row, i + 1, RAdd(offset, itemSize), rowSize,
                                         isWide, currentRect, gap)

\* The while loop of squarify
RECURSIVE squarifyLoop(_, _, _)
squarifyLoop(remaining, currentRect, gap) ==
    IF Len(remaining) = 0 THEN <<>>
    ELSE LET isWide == ~RLess(currentRect.width, currentRect.height)
             side == IF isWide THEN currentRect.height ELSE currentRect.width
             lr == layoutRow(remaining, side)
             rowArea == SumArea(lr.row)
             rowSize == RDiv(rowArea, side)
             nextRect == IF isWide
                         THEN [currentRect EXCEPT !.x = RAdd(@, rowSize),
                                                  !.width = RSub(@, rowSize)]
                         ELSE [currentRect EXCEPT !.y = RAdd(@, rowSize),
                                                  !.height = RSub(@, rowSize)]
         IN  squarifyRowCells(lr.row, 1, Num(0), rowSize, isWide, currentRect, gap)
             \o squarifyLoop(lr.rest, nextRect, gap)

\* squarify without the terminal case: a single item goes through the row
\* loop like any other list
squarifyNoTerminalCase(arr, rect, gap) ==
    IF Len(arr) = 0 THEN <<>>
    ELSE squarifyLoop(arr, rect, gap)

squarify(arr, rect, gap) ==
    IF Len(arr) = 0 THEN <<>>
    ELSE IF Len(arr) = 1
         THEN <<[x |-> Floor(rect.x),
                 y |-> Floor(rect.y),
                 width |-> Floor(rect.width),
                 height |-> Floor(rect.height),
                 mediaIndex |-> arr[1].index]>>
    ELSE squarifyLoop(arr, rect, gap)

\* item.area || Math.max(1, item.aspect): an area that is absent or 0 is replaced
weightOf(item) ==
    IF item.area = <<>> \/ item.area[1][1] = 0
    THEN RMax(Num(1), item.aspect)
    ELSE item.area[1]

\* weightedItemsOf normalising to the whole canvas (totalArea = canvasWidth *
\* canvasHeight)
weightedItemsOfWholeCanvas(arr, canvasWidth, canvasHeight, gap) ==
    LET totalArea == canvasWidth * canvasHeight
        weighted == [i \in 1..Len(arr) |-> [arr[i] EXCEPT !.area = weightOf(arr[i])]]
        totalWeight == SumArea(weighted)
        normalised == [i \in 1..Len(arr) |->
                          [weighted[i] EXCEPT !.area = RMul(RDiv(@, totalWeight), Num(totalArea))]]
    IN  SortDesc(normalised, Areas(normalised))

\* weightedItems after the map, the normalisation and the sort (area is a
\* number in these records, no longer optional)
weightedItemsOf(arr, canvasWidth, canvasHeight, gap) ==
    LET totalArea == (canvasWidth - gap * 2) * (canvasHeight - gap * 2)
        weighted == [i \in 1..Len(arr) |-> [arr[i] EXCEPT !.area = weightOf(arr[i])]]
        totalWeight == SumArea(weighted)
        normalised == [i \in 1..Len(arr) |->
                          [weighted[i] EXCEPT !.area = RMul(RDiv(@, totalWeight), Num(totalArea))]]
    IN  SortDesc(normalised, Areas(normalised))

calculateTreemapLayout(arr, canvasWidth, canvasHeight, gapOpt) ==
    LET gap == OrDefault(gapOpt, 0)
        rect == [x |-> Num(gap),
                 y |-> Num(gap),
                 width |-> Num(canvasWidth - gap * 2),
                 height |-> Num(canvasHeight - gap * 2)]
    IN  IF Len(arr) = 0 THEN <<>>
        ELSE squarify(weightedItemsOf(arr, canvasWidth, canvasHeight, gap), rect, gap)

----------------------------------------------------------------------------
(* calculatePackLayout *)

\* itemDims: targetHeight = sqrt(avgArea) is irrational in general; the two
\* floors are computed exactly, floor(targetHeight * aspect) being
\* floor(sqrt(avgArea * aspect^2))
itemDimsOf(arr, canvasWidth, canvasHeight) ==
    LET avgArea == Rat(canvasWidth * canvasHeight, Len(arr))
    IN  [i \in 1..Len(arr) |->
            [index |-> arr[i].index,
             aspect |-> arr[i].aspect,
             area |-> arr[i].area,
             width |-> FloorSqrt(RMul(avgArea, RMul(arr[i].aspect, arr[i].aspect))),
             height |-> FloorSqrt(avgArea)]]

Heights(dims) == [i \in 1..Len(dims) |-> Num(dims[i].height)]

\* the scan of the shelves keeping the last shelf that takes the item (no
\* break); 0 when none does
firstFitLatest(shelves, s, item, canvasWidth, gap) ==
    LET takers == { t \in s..Len(shelves) :
                       /\ shelves[t].width + item.width + gap <= canvasWidth
                       /\ item.height <= shelves[t].height }
    IN  IF takers = {} THEN 0 ELSE CHOOSE t \in takers : \A u \in takers : u <= t

\* The first shelf, from shelf s on, that takes the item; 0 when none does
RECURSIVE firstFit(_, _, _, _, _)
firstFit(shelves, s, item, canvasWidth, gap) ==
    IF s > Len(shelves) THEN 0
    ELSE IF shelves[s].width + item.width + gap <= canvasWidth
            /\ item.height <= shelves[s].height
         THEN s
         ELSE firstFit(shelves, s + 1, item, canvasWidth, gap)

\* The shelf loop from item i on
RECURSIVE packPlace(_, _, _, _, _, _)
packPlace(dims, i, shelves, placed, canvasWidth, gap) ==
    IF i > Len(dims) THEN [positions |-> placed, shelves |-> shelves]
    ELSE LET item == dims[i]
             s == firstFit(shelves, 1, item, canvasWidth, gap)
             last == shelves[Len(shelves)]
             shelfY == IF Len(shelves) = 0 THEN gap ELSE last.y + last.height + gap
         IN  IF s # 0
             THEN packPlace(dims, i + 1,
                            [shelves EXCEPT ![s].width = @ + item.width + gap],
                            Append(placed, [x |-> shelves[s].width + gap,
                                            y |-> shelves[s].y,
                                            width |-> item.width,
                                            height |-> item.height,
                                            mediaIndex |-> item.index]),
                            canvasWidth, gap)
             ELSE packPlace(dims, i + 1,
                            Append(shelves, [y |-> shelfY,
                                             height |-> item.height,
                                             width |-> item.width + gap]),
                            Append(placed, [x |-> gap,
                                            y |-> shelfY,
                                            width |-> item.width,
                                            height |-> item.height,
                                            mediaIndex |-> item.index]),
                            canvasWidth, gap)

\* packScale with the larger of the two factors (Math.max(scaleX, scaleY))
packScaleLargerFactor(placed, canvasWidth, canvasHeight, gap) ==
    LET maxY == MaxOf([i \in 1..Len(placed) |-> placed[i].y + placed[i].height])
        maxX == MaxOf([i \in 1..Len(placed) |-> placed[i].x + placed[i].width])
        scaleX == Rat(canvasWidth - gap * 2, maxX)
        scaleY == Rat(canvasHeight - gap * 2, maxY)
        scale == RMax(scaleX, scaleY)
        offsetX == Floor(RDiv(RSub(Num(canvasWidth), RMul(Num(maxX), scale)), Num(2)))
        offsetY == Floor(RDiv(RSub(Num(canvasHeight), RMul(Num(maxY), scale)), Num(2)))
    IN  [i \in 1..Len(placed) |->
            [x |-> Floor(RAdd(RMul(Num(placed[i].x), scale), Num(offsetX))),
             y |-> Floor(RAdd(RMul(Num(placed[i].y), scale), Num(offsetY))),
             width |-> Floor(RMul(Num(placed[i].width), scale)),
             height |-> Floor(RMul(Num(placed[i].height), scale)),
             mediaIndex |-> placed[i].mediaIndex]]

packScale(placed, canvasWidth, canvasHeight, gap) ==
    LET maxY == MaxOf([i \in 1..Len(placed) |-> placed[i].y + placed[i].height])
        maxX == MaxOf([i \in 1..Len(placed) |-> placed[i].x + placed[i].width])
        scaleX == Rat(canvasWidth - gap * 2, maxX)
        scaleY == Rat(canvasHeight - gap * 2, maxY)
        scale == RMin(scaleX, scaleY)
        offsetX == Floor(RDiv(RSub(Num(canvasWidth), RMul(Num(maxX), scale)), Num(2)))
        offsetY == Floor(RDiv(RSub(Num(canvasHeight), RMul(Num(maxY), scale)), Num(2)))
    IN  [i \in 1..Len(placed) |->
            [x |-> Floor(RAdd(RMul(Num(placed[i].x), scale), Num(offsetX))),
             y |-> Floor(RAdd(RMul(Num(placed[i].y), scale), Num(offsetY))),
             width |-> Floor(RMul(Num(placed[i].width), scale)),
             height |-> Floor(RMul(Num(placed[i].height), scale)),
             mediaIndex |-> placed[i].mediaIndex]]

calculatePackLayout(arr, canvasWidth, canvasHeight, gapOpt) ==
    LET gap == OrDefault(gapOpt, 0)
        itemDims == itemDimsOf(arr, canvasWidth, canvasHeight)
        sortedDims == SortDesc(itemDims, Heights(itemDims))
        loop == packPlace(sortedDims, 1, <<>>, <<>>, canvasWidth, gap)
    IN  IF Len(arr) = 0 THEN <<>>
        ELSE packScale(loop.positions, canvasWidth, canvasHeight, gap)

----------------------------------------------------------------------------
(* calculateLayout *)

\* calculateLayout with the default branch on grid instead of dynamic
calculateLayoutDefaultGrid(arr, options) ==
    LET canvasWidth == options.canvasWidth
        canvasHeight == options.canvasHeight
        gap == <<OrDefault(options.gap, 0)>>
    IN  CASE options.type = "dynamic" ->
               calculateDynamicLayout(arr, canvasWidth, canvasHeight, gap)
          [] options.type = "masonry" ->
               calculateMasonryLayout(arr, canvasWidth, canvasHeight, gap, options.columns)
          [] options.type = "treemap" ->
               calculateTreemapLayout(arr, canvasWidth, canvasHeight, gap)
          [] options.type = "pack" ->
               calculatePackLayout(arr, canvasWidth, canvasHeight, gap)
          [] OTHER ->
               calculateGridLayout(Len(arr), canvasWidth, canvasHeight,
                                   options.columns, options.rows, gap)

\* options.type is a string; a missing type is the string "undefined" here
calculateLayout(arr, options) ==
    LET canvasWidth == options.canvasWidth
        canvasHeight == options.canvasHeight
        gap == <<OrDefault(options.gap, 0)>>
    IN  CASE options.type = "grid" ->
               calculateGridLayout(Len(arr), canvasWidth, canvasHeight,
                                   options.columns, options.rows, gap)
          [] options.type = "masonry" ->
               calculateMasonryLayout(arr, canvasWidth, canvasHeight, gap, options.columns)
          [] options.type = "treemap" ->
               calculateTreemapLayout(arr, canvasWidth, canvasHeight, gap)
          [] options.type = "pack" ->
               calculatePackLayout(arr, canvasWidth, canvasHeight, gap)
          [] OTHER ->
               calculateDynamicLayout(arr, canvasWidth, canvasHeight, gap)

----------------------------------------------------------------------------
(* mediaToLayoutItem *)

\* mediaToLayoutItem with 4 / 3 as the aspect of an absent descriptor
mediaToLayoutItemDefaultFourThirds(info, index) ==
    [index |-> index,
     aspect |-> IF info # <<>> THEN Rat(info[1].width, info[1].height) ELSE Rat(4, 3),
     area |-> <<>>]

\* info is <<>> for undefined and <<descriptor>> otherwise; the returned
\* object has no area property, which is area = <<>> here.  Only width and
\* height of the descriptor are read.
mediaToLayoutItem(info, index) ==
    [index |-> index,
     aspect |-> IF info # <<>> THEN Rat(info[1].width, info[1].height) ELSE Rat(16, 9),
     area |-> <<>>]

----------------------------------------------------------------------------
(* clampPositions *)

\* clampPosition keeping one pixel free at the right and bottom edges
\* (canvasWidth - pos.x - 1, canvasHeight - pos.y - 1)
clampPositionOpenEdge(pos, canvasWidth, canvasHeight) ==
    [x |-> Max(0, Min(pos.x, canvasWidth - pos.width)),
     y |-> Max(0, Min(pos.y, canvasHeight - pos.height)),
     width |-> Min(pos.width, canvasWidth - pos.x - 1),
     height |-> Min(pos.height, canvasHeight - pos.y - 1),
     mediaIndex |-> pos.mediaIndex]

clampPosition(pos, canvasWidth, canvasHeight) ==
    [x |-> Max(0, Min(pos.x, canvasWidth - pos.width)),
     y |-> Max(0, Min(pos.y, canvasHeight - pos.height)),
     width |-> Min(pos.width, canvasWidth - pos.x),
     height |-> Min(pos.height, canvasHeight - pos.y),
     mediaIndex |-> pos.mediaIndex]

clampPositions(posArr, canvasWidth, canvasHeight) ==
    [i \in 1..Len(posArr) |-> clampPosition(posArr[i], canvasWidth, canvasHeight)]

----------------------------------------------------------------------------
(* What each call leaves in the array object the caller passed.  Each      *)
(* operator follows the arrays the function writes to, under the names the *)
(* source gives them; "items" is the caller's array.  The elements hold    *)
(* numbers only, so a copied element shares nothing with its original.     *)

\* partitionIntoRows: sorted = [...items].sort(...) sorts the copy; the
\* reduce calls and the loops over the rows only read
dynamicArgAfterSortInPlace(arr) ==
    LET heap == [items |-> SortDesc(arr, Aspects(arr))]
    IN  IF Len(arr) >= 2 THEN heap.items ELSE arr

dynamicArgAfter(arr) ==
    LET copy == arr
        heap == [items |-> arr, sorted |-> SortDesc(copy, Aspects(copy))]
    IN  IF Len(arr) >= 2 THEN heap.items ELSE arr

\* the for-of loop only reads; every pushed position is a new object, and
\* the scaling writes to those
masonryArgAfter(arr) == arr

\* weightedItems = items.map(item => ({...item, area})) is a new array of new
\* records; the normalisation and the sort write to it, squarify copies it
treemapArgAfter(arr, canvasWidth, canvasHeight, gapOpt) ==
    LET heap == [items |-> arr,
                 weightedItems |-> weightedItemsOf(arr, canvasWidth, canvasHeight,
                                                   OrDefault(gapOpt, 0))]
    IN  IF Len(arr) = 0 THEN arr ELSE heap.items

\* itemDims = items.map(item => ({...item, width, height})) is a new array of
\* new records; the sort works on it
packArgAfter(arr, canvasWidth, canvasHeight) ==
    LET itemDims == itemDimsOf(arr, canvasWidth, canvasHeight)
        heap == [items |-> arr, itemDims |-> SortDesc(itemDims, Heights(itemDims))]
    IN  IF Len(arr) = 0 THEN arr ELSE heap.items

\* calculateGridLayout is given items.length only
layoutArgAfter(arr, options) ==
    CASE options.type = "grid" -> arr
      [] options.type = "masonry" -> masonryArgAfter(arr)
      [] options.type = "treemap" ->
           treemapArgAfter(arr, options.canvasWidth, options.canvasHeight, options.gap)
      [] options.type = "pack" ->
           packArgAfter(arr, options.canvasWidth, options.canvasHeight)
      [] OTHER -> dynamicArgAfter(arr)

\* positions.map builds a new array of new records ({...pos, x, y, ...})
clampArgAfter(posArr) == posArr

----------------------------------------------------------------------------
(* Inputs of the model *)

\* 16:9, 9:16 and 1:1 content without a weight; 4:3 content with area 6
ItemKinds ==
    { [aspect |-> <<16, 9>>, area |-> <<>>],
      [aspect |-> <<9, 16>>, area |-> <<>>],
      [aspect |-> <<1, 1>>, area |-> <<>>],
      [aspect |-> <<4, 3>>, area |-> <<Num(6)>>] }

\* Index of the k-th item (k = 0, 1, ...): its position, as generateCollage
\* numbers them (ffmpeg.ts:388), or identifiers that are not 0..N-1
ContiguousIndex(k) == k

SparseIndex(k) == 3 * k + 2

Canvases == { <<192, 108>>, <<100, 100>>, <<108, 192>> }

GapChoices == { <<>>, <<5>> }

\* columnCount of calculateMasonryLayout
ColumnChoices == { <<>>, <<2>>, <<3>> }

\* <<columns, rows>> of calculateGridLayout
GridChoices ==
    { <<<<>>, <<>>>>, <<<<2>>, <<>>>>, <<<<0>>, <<2>>>>, <<<<2>>, <<2>>>>, <<<<3>>, <<2>>>> }

LayoutTypes == { "grid", "dynamic", "masonry", "treemap", "pack" }

\* type values a caller can pass: the five names, none, an unknown name
TypeChoices == LayoutTypes \cup { "undefined", "spiral" }

LayoutFns ==
    { "calculateLayout", "calculateGridLayout", "calculateDynamicLayout",
      "calculateMasonryLayout", "calculateTreemapLayout", "calculatePackLayout" }

Options(type, canvas, gap, columns, rows) ==
    [type |-> type, canvasWidth |-> canvas[1], canvasHeight |-> canvas[2],
     gap |-> gap, columns |-> columns, rows |-> rows]

----------------------------------------------------------------------------
(* The caller *)

Init ==
    /\ items = <<>>
    /\ snapshot = <<>>
    /\ called = "none"
    /\ args = Options("undefined", <<0, 0>>, <<>>, <<>>, <<>>)
    /\ result = <<>>
    /\ positions = <<>>

\* The caller appends one item; all items of a list are numbered the same way
AddItem ==
    /\ called = "none"
    /\ Len(items) < MaxItems
    /\ \E kind \in ItemKinds, sparse \in BOOLEAN :
          /\ Len(items) > 0 => sparse = (items[1].index # 0)
          /\ items' = Append(items,
                 [index |-> IF sparse THEN SparseIndex(Len(items))
                                      ELSE ContiguousIndex(Len(items)),
                  aspect |-> kind.aspect,
                  area |-> kind.area])
    /\ UNCHANGED <<snapshot, called, args, result, positions>>

CallGrid ==
    /\ called = "none"
    /\ \E canvas \in Canvases, gap \in GapChoices, grid \in GridChoices :
          /\ args' = Options("undefined", canvas, gap, grid[1], grid[2])
          /\ result' = calculateGridLayout(Len(items), canvas[1], canvas[2],
                                           grid[1], grid[2], gap)
    /\ called' = "calculateGridLayout"
    /\ snapshot' = items
    /\ UNCHANGED <<items, positions>>

CallDynamic ==
    /\ called = "none"
    /\ \E canvas \in Canvases, gap \in GapChoices :
          /\ args' = Options("undefined", canvas, gap, <<>>, <<>>)
          /\ result' = calculateDynamicLayout(items, canvas[1], canvas[2], gap)
    /\ called' = "calculateDynamicLayout"
    /\ snapshot' = items
    /\ items' = dynamicArgAfter(items)
    /\ UNCHANGED positions

CallMasonry ==
    /\ called = "none"
    /\ \E canvas \in Canvases, gap \in GapChoices, columns \in ColumnChoices :
          /\ args' = Options("undefined", canvas, gap, columns, <<>>)
          /\ result' = calculateMasonryLayout(items, canvas[1], canvas[2], gap, columns)
    /\ called' = "calculateMasonryLayout"
    /\ snapshot' = items
    /\ items' = masonryArgAfter(items)
    /\ UNCHANGED positions

CallTreemap ==
    /\ called = "none"
    /\ \E canvas \in Canvases, gap \in GapChoices :
          /\ args' = Options("undefined", canvas, gap, <<>>, <<>>)
          /\ result' = calculateTreemapLayout(items, canvas[1], canvas[2], gap)
    /\ called' = "calculateTreemapLayout"
    /\ snapshot' = items
    /\ items' = treemapArgAfter(items, args'.canvasWidth, args'.canvasHeight, args'.gap)
    /\ UNCHANGED positions

CallPack ==
    /\ called = "none"
    /\ \E canvas \in Canvases, gap \in GapChoices :
          /\ args' = Options("undefined", canvas, gap, <<>>, <<>>)
          /\ result' = calculatePackLayout(items, canvas[1], canvas[2], gap)
    /\ called' = "calculatePackLayout"
    /\ snapshot' = items
    /\ items' = packArgAfter(items, args'.canvasWidth, args'.canvasHeight)
    /\ UNCHANGED positions

\* columns and rows are given together or not at all here, and only to the
\* two algorithms that read them
CallLayout ==
    /\ called = "none"
    /\ \E type \in TypeChoices, canvas \in Canvases, gap \in GapChoices,
          grid \in { <<<<>>, <<>>>>, <<<<2>>, <<2>>>> } :
          /\ grid[1] # <<>> => type \in { "grid", "masonry" }
          /\ args' = Options(type, canvas, gap, grid[1], grid[2])
          /\ result' = calculateLayout(items, args')
          /\ items' = layoutArgAfter(items, args')
    /\ called' = "calculateLayout"
    /\ snapshot' = items
    /\ UNCHANGED positions

\* positions = clampPositions(positions, width, height) on a returned layout
ClampResult ==
    /\ called = "calculateLayout"
    /\ called' = "clampPositions"
    /\ snapshot' = result
    /\ positions' = clampArgAfter(result)
    /\ result' = clampPositions(result, args.canvasWidth, args.canvasHeight)
    /\ UNCHANGED <<items, args>>

Next ==
    \/ AddItem
    \/ CallGrid
    \/ CallDynamic
    \/ CallMasonry
    \/ CallTreemap
    \/ CallPack
    \/ CallLayout
    \/ ClampResult

Spec == Init /\ [][Next]_vars

----------------------------------------------------------------------------
(* clampPositions called on rectangles of any origin, such as the positions *)
(* of a custom layout (types.ts:24), and called again on its own result     *)

RectXs == { -10, 0, 40, 90, 120 }

RectWidths == { 0, 20, 100, 130 }

RectYs == { -10, 30 }

RectHeights == { 50, 130 }

Rects ==
    { [x |-> x, y |-> y, width |-> w, height |-> h, mediaIndex |-> 0] :
        x \in RectXs, y \in RectYs, w \in RectWidths, h \in RectHeights }

RECURSIVE RectLists(_)
RectLists(n) ==
    IF n = 0 THEN { <<>> }
    ELSE RectLists(n - 1)
         \cup { Append(l, r) : l \in { m \in RectLists(n - 1) : Len(m) = n - 1 }, r \in Rects }

InitClamp ==
    /\ items = <<>>
    /\ snapshot = <<>>
    /\ called = "none"
    /\ args = Options("undefined", <<0, 0>>, <<>>, <<>>, <<>>)
    /\ result = <<>>
    /\ positions \in RectLists(MaxRects)

ClampCustom ==
    /\ called = "none"
    /\ \E canvas \in Canvases :
          /\ args' = Options("undefined", canvas, <<>>, <<>>, <<>>)
          /\ result' = clampPositions(positions, canvas[1], canvas[2])
    /\ called' = "clampPositions"
    /\ snapshot' = positions
    /\ positions' = clampArgAfter(positions)
    /\ UNCHANGED items

\* clampPositions(clampPositions(P, w, h), w, h): the first result is the
\* array passed to the second call
ClampAgain ==
    /\ called = "clampPositions"
    /\ called' = "clampPositions again"
    /\ snapshot' = result
    /\ positions' = clampArgAfter(result)
    /\ result' = clampPositions(result, args.canvasWidth, args.canvasHeight)
    /\ UNCHANGED <<items, args>>

NextClamp ==
    \/ ClampCustom
    \/ ClampAgain

SpecClamp == InitClamp /\ [][NextClamp]_vars

----------------------------------------------------------------------------
(* The functions that take no item list, called on their own:              *)
(* calculateGridLayout with a bare count, and mediaToLayoutItem             *)

\* largest count handed to calculateGridLayout
MaxCount == 9

GridArgs(count, canvas, gap, columns, rows) ==
    [mediaCount |-> count, canvasWidth |-> canvas[1], canvasHeight |-> canvas[2],
     gap |-> gap, columns |-> columns, rows |-> rows]

CallGridCount ==
    /\ called = "none"
    /\ \E count \in 0..MaxCount, canvas \in Canvases, gap \in GapChoices,
          grid \in GridChoices :
          /\ args' = GridArgs(count, canvas, gap, grid[1], grid[2])
          /\ result' = calculateGridLayout(count, canvas[1], canvas[2],
                                           grid[1], grid[2], gap)
    /\ called' = "calculateGridLayout"
    /\ UNCHANGED <<items, snapshot, positions>>

\* largest index handed to mediaToLayoutItem
MaxIndex == 5

\* descriptors as ffprobe reports them: positive pixel sizes
MediaWidths == { 1920, 1080, 640, 500 }

MediaHeights == { 1080, 1920, 480, 500 }

MediaInfos ==
    { <<>> } \cup { <<[width |-> w, height |-> h]>> : w \in MediaWidths, h \in MediaHeights }

CallMediaToLayoutItem ==
    /\ called = "none"
    /\ \E info \in MediaInfos, index \in 0..MaxIndex :
          /\ args' = [info |-> info, index |-> index]
          /\ result' = mediaToLayoutItem(info, index)
    /\ called' = "mediaToLayoutItem"
    /\ UNCHANGED <<items, snapshot, positions>>

NextUnits ==
    \/ CallGridCount
    \/ CallMediaToLayoutItem

SpecUnits == Init /\ [][NextUnits]_vars

----------------------------------------------------------------------------
(* calculateTreemapLayout with the while loop of squarify taken one        *)
(* iteration at a time.  While the loop runs, args also holds its locals:  *)
(* remaining, currentRect and the positions pushed so far (emitted), and   *)
(* the number of iterations done.                                          *)

\* item lists of n items at most, numbered 0, 1, ... in order
RECURSIVE ItemLists(_)
ItemLists(n) ==
    IF n = 0 THEN { <<>> }
    ELSE ItemLists(n - 1)
         \cup { Append(l, [index |-> ContiguousIndex(Len(l)),
                           aspect |-> kind.aspect,
                           area |-> kind.area]) :
                   l \in { m \in ItemLists(n - 1) : Len(m) = n - 1 }, kind \in ItemKinds }

SquarifyLocals(canvas, gap, remaining, currentRect, emitted, iterations) ==
    [canvasWidth |-> canvas[1], canvasHeight |-> canvas[2], gap |-> gap,
     remaining |-> remaining, currentRect |-> currentRect, emitted |-> emitted,
     iterations |-> iterations]

InitSquarify ==
    /\ items \in ItemLists(MaxItems)
    /\ snapshot = items
    /\ called = "none"
    /\ args = Options("undefined", <<0, 0>>, <<>>, <<>>, <<>>)
    /\ result = <<>>
    /\ positions = <<>>

\* the free rectangle calculateTreemapLayout hands to squarify
treemapRect(canvas, gap) ==
    [x |-> Num(gap),
     y |-> Num(gap),
     width |-> Num(canvas[1] - gap * 2),
     height |-> Num(canvas[2] - gap * 2)]

\* calculateTreemapLayout up to the loop of squarify; the calls that do not
\* reach the loop (no item, one item) return at once
TreemapEnter ==
    /\ called = "none"
    /\ \E canvas \in Canvases, gapOpt \in GapChoices :
          /\ args' = SquarifyLocals(canvas, gapOpt,
                        IF Len(items) <= 1 THEN <<>>
                        ELSE weightedItemsOf(items, canvas[1], canvas[2], OrDefault(gapOpt, 0)),
                        treemapRect(canvas, OrDefault(gapOpt, 0)), <<>>, 0)
          /\ result' = IF Len(items) <= 1
                       THEN calculateTreemapLayout(items, canvas[1], canvas[2], gapOpt)
                       ELSE <<>>
    /\ called' = IF Len(items) <= 1 THEN "calculateTreemapLayout" ELSE "squarify"
    /\ UNCHANGED <<items, snapshot, positions>>

\* the locals after one iteration of while (remaining.length > 0)
squarifyIteration(locals) ==
    LET gap == OrDefault(locals.gap, 0)
        currentRect == locals.currentRect
        isWide == ~RLess(currentRect.width, currentRect.height)
        side == IF isWide THEN currentRect.height ELSE currentRect.width
        lr == layoutRow(locals.remaining, side)
        rowSize == RDiv(SumArea(lr.row), side)
        nextRect == IF isWide
                    THEN [currentRect EXCEPT !.x = RAdd(@, rowSize),
                                             !.width = RSub(@, rowSize)]
                    ELSE [currentRect EXCEPT !.y = RAdd(@, rowSize),
                                             !.height = RSub(@, rowSize)]
    IN  [locals EXCEPT
            !.remaining = lr.rest,
            !.currentRect = nextRect,
            !.emitted = @ \o squarifyRowCells(lr.row, 1, Num(0), rowSize,
                                              isWide, currentRect, gap),
            !.iterations = @ + 1]

SquarifyIterate ==
    /\ called = "squarify"
    /\ Len(args.remaining) > 0
    /\ args' = squarifyIteration(args)
    /\ UNCHANGED <<items, snapshot, called, result, positions>>

\* the loop condition fails: return positions
SquarifyReturn ==
    /\ called = "squarify"
    /\ Len(args.remaining) = 0
    /\ result' = args.emitted
    /\ called' = "calculateTreemapLayout"
    /\ UNCHANGED <<items, snapshot, args, positions>>

NextSquarify ==
    \/ TreemapEnter
    \/ SquarifyIterate
    \/ SquarifyReturn

SpecSquarify == InitSquarify /\ [][NextSquarify]_vars

----------------------------------------------------------------------------
(* generateCollage (ffmpeg.ts): the FFmpeg run, the fallback from the      *)
(* experimental CUDA pipeline to hybrid mode, the batches of a long media  *)
(* list and their temporary files.  In this specification                  *)
(*   args      is the stack of the generateCollage calls in progress,      *)
(*   result    is the list of the FFmpeg runs so far,                      *)
(*   positions is the set of temp_collage_ files on disk,                  *)
(*   snapshot  counts the temp_collage_ files created so far,              *)
(*   called    is "generateCollage" while the outermost call runs, then    *)
(*             "generateCollage returned" or "generateCollage threw".      *)
(* A call is [config, kind, i, media]: kind says who made the call (the    *)
(* user: "top", the batch loop: "batch", the fallback: "retry"), i is the  *)
(* batch loop's index and media the temporary files in its media list.     *)

\* most batches a media list is split into (more than 12 items in batches
\* of 6 make 3 batches or more)
MaxBatches == 3

BatchCounts == { 0 } \cup 3..MaxBatches

\* how FFmpeg ends: exit code 0; non-zero with "cuda", "CUDA", "hwupload" or
\* "No NVENC" in its error output; non-zero without
FfmpegExits == { "ok", "cuda error", "other error" }

CollageConfigs ==
    [gpu : BOOLEAN, gpuExperimental : BOOLEAN, batches : BatchCounts]

useNvencEncoding(config) == config.gpu \/ config.gpuExperimental

useCudaFilters(config) == config.gpuExperimental

\* { ...config, gpu: true } : the retry keeps the experimental flag
hybridConfigKeepExperimental(config) == [config EXCEPT !.gpu = TRUE]

\* { ...config, gpu: true, gpuExperimental: false }
hybridConfig(config) == [config EXCEPT !.gpu = TRUE, !.gpuExperimental = FALSE]

\* the config of one batch: the GPU flags of the caller, six items or fewer
batchConfig(config) == [config EXCEPT !.batches = 0]

CollageCall(config, kind) == [config |-> config, kind |-> kind, i |-> 0, media |-> {}]

InitCollage ==
    /\ items = <<>>
    /\ snapshot = 0
    /\ called = "none"
    /\ args = <<>>
    /\ result = <<>>
    /\ positions = {}

\* the user's call
CollageInvoke ==
    /\ called = "none"
    /\ \E config \in CollageConfigs : args' = <<CollageCall(config, "top")>>
    /\ called' = "generateCollage"
    /\ UNCHANGED <<items, snapshot, result, positions>>

\* the batch loop calls generateCollage(batchConfig) for its next batch
CollageBatch ==
    /\ called = "generateCollage"
    /\ LET top == args[Len(args)]
       IN  /\ top.i < top.config.batches
           /\ args' = Append(args, CollageCall(batchConfig(top.config), "batch"))
    /\ UNCHANGED <<items, snapshot, called, result, positions>>

\* the calls left when the call on top has returned: a retry returns for
\* the call that made it as well
CallsBelow(stack) ==
    IF stack[Len(stack)].kind = "retry"
    THEN SubSeq(stack, 1, Len(stack) - 2)
    ELSE SubSeq(stack, 1, Len(stack) - 1)

\* who made the call that returns when the call on top returns
ReturningKind(stack) ==
    IF stack[Len(stack)].kind = "retry"
    THEN stack[Len(stack) - 1].kind
    ELSE stack[Len(stack)].kind

\* FFmpeg has run for the call on top (all its batches are made) and ended
\* with the given exit; probeOk is the outcome of getMediaInfo(tempOutput)
\* in the batch loop that waits for this call
FfmpegExit(exit, probeOk) ==
    LET top == args[Len(args)]
        below == CallsBelow(args)
        run == [cuda |-> useCudaFilters(top.config),
                nvenc |-> useNvencEncoding(top.config),
                retry |-> top.kind = "retry",
                exit |-> exit]
    IN  /\ called = "generateCollage"
        /\ top.i = top.config.batches
        /\ result' = Append(result, run)
        /\ CASE exit = "ok" /\ ReturningKind(args) = "top" ->
                  /\ positions' = positions \ top.media
                  /\ args' = <<>>
                  /\ called' = "generateCollage returned"
                  /\ UNCHANGED snapshot
             [] exit = "ok" /\ ReturningKind(args) = "batch" /\ probeOk ->
                  /\ positions' = (positions \ top.media) \cup { snapshot + 1 }
                  /\ snapshot' = snapshot + 1
                  /\ args' = [below EXCEPT ![Len(below)].i = @ + 1,
                                           ![Len(below)].media = @ \cup { snapshot + 1 }]
                  /\ UNCHANGED called
             [] exit = "ok" /\ ReturningKind(args) = "batch" /\ ~probeOk ->
                  /\ positions' = (positions \ top.media) \cup { snapshot + 1 }
                  /\ snapshot' = snapshot + 1
                  /\ args' = <<>>
                  /\ called' = "generateCollage threw"
             [] exit = "cuda error" /\ useCudaFilters(top.config) ->
                  /\ args' = Append(args, CollageCall(hybridConfig(top.config), "retry"))
                  /\ UNCHANGED <<snapshot, called, positions>>
             [] OTHER ->
                  /\ args' = <<>>
                  /\ called' = "generateCollage threw"
                  /\ UNCHANGED <<snapshot, positions>>
        /\ UNCHANGED items

CollageFfmpeg ==
    \E exit \in FfmpegExits, probeOk \in BOOLEAN : FfmpegExit(exit, probeOk)

NextCollage ==
    \/ CollageInvoke
    \/ CollageBatch
    \/ CollageFfmpeg

SpecCollage == InitCollage /\ [][NextCollage]_vars

----------------------------------------------------------------------------
(* getMediaInfoBatch (ffmpeg.ts): the probes of a list of paths, started   *)
(* batch by batch.  In this specification                                  *)
(*   args      is the call's locals [filePaths, i, awaiting],              *)
(*   positions is the state of the probe of every position of filePaths:   *)
(*             "waiting", "in flight", "fulfilled" or "rejected",          *)
(*   result    is the set of the keys of the results map,                  *)
(*   called    is "getMediaInfoBatch" while the call runs, then            *)
(*             "getMediaInfoBatch returned" or "getMediaInfoBatch threw".  *)

\* longest list of paths
MaxPaths == 10

BATCH_SIZE == 8

\* lists of n paths: all different, or the last one the first one again
PathLists(n) ==
    { [k \in 1..n |-> k], [k \in 1..n |-> IF k = n /\ n > 1 THEN 1 ELSE k] }

\* filePaths.slice(i, i + BATCH_SIZE), as positions of filePaths
batchOf(filePaths, i) ==
    { k \in 1..Len(filePaths) : i < k /\ k <= i + BATCH_SIZE }

\* the promise of a probe without the try/catch around it: settles as the
\* probe does
probeResultUncaught(probe) == probe

\* the promise of the async function mapped over the batch: fulfilled with
\* the info when the probe succeeds, fulfilled without it when the probe
\* throws
probeResult(probe) ==
    CASE probe = "fulfilled" -> "fulfilled"
      [] probe = "rejected" -> "fulfilled, info: null"
      [] OTHER -> probe

InitBatch ==
    /\ items = <<>>
    /\ snapshot = <<>>
    /\ called = "none"
    /\ args = <<>>
    /\ result = {}
    /\ positions = <<>>

BatchInvoke ==
    /\ called = "none"
    /\ \E n \in 0..MaxPaths : \E filePaths \in PathLists(n) :
          /\ args' = [filePaths |-> filePaths, i |-> 0, awaiting |-> FALSE]
          /\ positions' = [k \in 1..n |-> "waiting"]
    /\ called' = "getMediaInfoBatch"
    /\ UNCHANGED <<items, snapshot, result>>

\* one turn of the loop up to its await: every probe of the batch is started
BatchStart ==
    /\ called = "getMediaInfoBatch"
    /\ ~args.awaiting
    /\ args.i < Len(args.filePaths)
    /\ positions' = [k \in 1..Len(positions) |->
                        IF k \in batchOf(args.filePaths, args.i)
                        THEN "in flight" ELSE positions[k]]
    /\ args' = [args EXCEPT !.awaiting = TRUE]
    /\ UNCHANGED <<items, snapshot, called, result>>

\* the probe of one path ends: getMediaInfo returns the info or throws
ProbeSettles ==
    /\ called \in { "getMediaInfoBatch", "getMediaInfoBatch threw" }
    /\ \E k \in 1..Len(positions), outcome \in { "fulfilled", "rejected" } :
          /\ positions[k] = "in flight"
          /\ positions' = [positions EXCEPT ![k] = outcome]
    /\ UNCHANGED <<items, snapshot, called, args, result>>

\* Promise.all(promises): rejected once one of the promises is rejected,
\* fulfilled once all are fulfilled; then the loop stores the infos
BatchAwaited ==
    /\ called = "getMediaInfoBatch"
    /\ args.awaiting
    /\ LET batch == batchOf(args.filePaths, args.i)
           promises == [k \in batch |-> probeResult(positions[k])]
       IN  IF \E k \in batch : promises[k] = "rejected"
           THEN /\ called' = "getMediaInfoBatch threw"
                /\ UNCHANGED <<args, result>>
           ELSE /\ \A k \in batch : promises[k] \in { "fulfilled", "fulfilled, info: null" }
                /\ result' = result \cup { args.filePaths[k] : k \in { j \in batch : promises[j] = "fulfilled" } }
                /\ args' = [args EXCEPT !.i = @ + BATCH_SIZE, !.awaiting = FALSE]
                /\ UNCHANGED called
    /\ UNCHANGED <<items, snapshot, positions>>

BatchReturn ==
    /\ called = "getMediaInfoBatch"
    /\ ~args.awaiting
    /\ args.i >= Len(args.filePaths)
    /\ called' = "getMediaInfoBatch returned"
    /\ UNCHANGED <<items, snapshot, args, result, positions>>

NextBatch ==
    \/ BatchInvoke
    \/ BatchStart
    \/ ProbeSettles
    \/ BatchAwaited
    \/ BatchReturn

SpecBatch == InitBatch /\ [][NextBatch]_vars

----------------------------------------------------------------------------
(* Properties of the layout calls *)

IndexSet(arr) == { arr[i].index : i \in 1..Len(arr) }

MediaIndexSet(posArr) == { posArr[i].mediaIndex : i \in 1..Len(posArr) }

InCanvas(pos, canvasWidth, canvasHeight) ==
    /\ pos.x >= 0
    /\ pos.y >= 0
    /\ pos.x + pos.width <= canvasWidth
    /\ pos.y + pos.height <= canvasHeight

\* the item of the snapshot a rectangle was emitted for
ItemOf(pos) == CHOOSE item \in { snapshot[i] : i \in 1..Len(snapshot) } : item.index = pos.mediaIndex

\* C1: through calculateLayout, every non-empty item list gets as many
\* rectangles as it has items, and the mediaIndex values of the output are
\* exactly the index values of the input, whatever the indices are.
C1_EveryItemPlacedOnce ==
    (called = "calculateLayout" /\ Len(snapshot) > 0)
        => /\ Len(result) = Len(snapshot)
           /\ MediaIndexSet(result) = IndexSet(snapshot)

\* C2: every rectangle emitted by any of the algorithms for a non-empty list
\* has a positive width and a positive height (every canvas of the model is
\* at least 100 x 100, every gap at most 5).
C2_PositiveSize ==
    (called \in LayoutFns /\ Len(snapshot) > 0)
        => \A i \in 1..Len(result) : result[i].width > 0 /\ result[i].height > 0

\* C3: every rectangle calculateDynamicLayout emits for two or more items
\* lies within the canvas.
C3_DynamicWithinCanvas ==
    (called = "calculateDynamicLayout" /\ Len(snapshot) >= 2)
        => \A i \in 1..Len(result) :
              InCanvas(result[i], args.canvasWidth, args.canvasHeight)

\* The call was calculateDynamicLayout (directly or as calculateLayout's
\* choice) on two or more items
DynamicCalled ==
    \/ called = "calculateDynamicLayout"
    \/ called = "calculateLayout" /\ args.type \notin (LayoutTypes \ { "dynamic" })

DynamicRowsCase == DynamicCalled /\ Len(snapshot) >= 2

\* rows of the call and the place of row r's first cell in the output
RowsOfCall ==
    partitionIntoRows(snapshot, args.canvasWidth, args.canvasHeight, OrDefault(args.gap, 0))

RECURSIVE CellsBefore(_, _)
CellsBefore(rows, r) == IF r = 1 THEN 0 ELSE CellsBefore(rows, r - 1) + Len(rows[r - 1])

WidthFromAspect(pos, item) == Floor(RMul(Num(pos.height), item.aspect))

----------------------------------------------------------------------------
(* Properties of clampPositions *)

ClampCalled == called \in { "clampPositions", "clampPositions again" }

\* C5: every rectangle clampPositions returns lies within the canvas,
\* whatever the rectangle given (negative coordinates, sizes larger than
\* the canvas).
C5_ClampedWithinCanvas ==
    ClampCalled
        => \A i \in 1..Len(result) :
              InCanvas(result[i], args.canvasWidth, args.canvasHeight)

\* C6: clamping a clamped list changes nothing: the second call returns its
\* argument, field by field.
C6_ClampIdempotent ==
    called = "clampPositions again" => result = snapshot

----------------------------------------------------------------------------
(* Properties of the dispatcher, of empty input and of the arguments *)

\* gap as calculateLayout hands it on: options.gap, or 0 when it is absent
GapHandedOn == <<OrDefault(args.gap, 0)>>

\* C7: calculateLayout returns what the algorithm named by options.type
\* returns when called directly with the same canvas and gap (columns and
\* rows handed to grid, columns to masonry); an absent or unknown type gives
\* the result of the dynamic algorithm.
C7_DispatchesByType ==
    called = "calculateLayout"
        => LET w == args.canvasWidth
               h == args.canvasHeight
           IN  /\ args.type = "grid"
                    => result = calculateGridLayout(Len(snapshot), w, h,
                                                    args.columns, args.rows, GapHandedOn)
               /\ args.type = "masonry"
                    => result = calculateMasonryLayout(snapshot, w, h, GapHandedOn, args.columns)
               /\ args.type = "treemap"
                    => result = calculateTreemapLayout(snapshot, w, h, GapHandedOn)
               /\ args.type = "pack"
                    => result = calculatePackLayout(snapshot, w, h, GapHandedOn)
               /\ args.type \notin { "grid", "masonry", "treemap", "pack" }
                    => result = calculateDynamicLayout(snapshot, w, h, GapHandedOn)

\* an unknown type on two items or more: the rows of the dynamic layout
C7_Witness ==
    /\ called = "calculateLayout"
    /\ args.type = "spiral"
    /\ Len(result) >= 2
    /\ args.gap = <<>>

\* C8: an empty item list (count 0 for grid) gives an empty result from every
\* algorithm, called directly or through calculateLayout, whatever the
\* canvas, gap, columns and rows.
C8_EmptyInEmptyOut ==
    (called \in LayoutFns /\ Len(snapshot) = 0) => result = <<>>

\* calculateGridLayout(0, ...) with 2 columns and 2 rows has returned
C8_Witness ==
    /\ called = "calculateGridLayout"
    /\ Len(snapshot) = 0
    /\ args.columns = <<2>>
    /\ args.rows = <<2>>
    /\ result = <<>>

C10_GridCells ==
    (called = "calculateGridLayout" /\ ~Falsy(args.columns) /\ ~Falsy(args.rows))
        => LET gap == OrDefault(args.gap, 0)
               columns == args.columns[1]
               rows == args.rows[1]
               cellWidth == (args.canvasWidth - gap * (columns + 1)) \div columns
               cellHeight == (args.canvasHeight - gap * (rows + 1)) \div rows
           IN  /\ Len(result) = Len(snapshot)
               /\ \A k \in 1..Len(result) :
                     /\ result[k].mediaIndex = k - 1
                     /\ result[k].width = cellWidth
                     /\ result[k].height = cellHeight
                     /\ result[k].x = gap + ((k - 1) % columns) * (cellWidth + gap)
                     /\ result[k].y = gap + ((k - 1) \div columns) * (cellHeight + gap)
               /\ Len(result) >= 1 => (result[1].x = gap /\ result[1].y = gap)

\* three cells in a grid of 2 columns and 2 rows with a gap: the third cell
\* starts the second row
C10_Witness ==
    /\ called = "calculateGridLayout"
    /\ args.columns = <<2>>
    /\ args.rows = <<2>>
    /\ args.gap = <<5>>
    /\ Len(result) = 3
    /\ result[3].x = 5
    /\ result[3].y > 5

----------------------------------------------------------------------------
(* Properties of calculateGridLayout with derived columns and rows *)

\* the least c with c * c >= n, and the least r with r * c >= n
LeastSquareSide(n) == CHOOSE c \in 0..n : c * c >= n /\ \A b \in 0..(c - 1) : b * b < n

LeastRows(n, c) == CHOOSE r \in 0..n : r * c >= n /\ \A q \in 0..(r - 1) : q * c < n

\* C11: when columns or rows is not supplied, calculateGridLayout lays the
\* cells out in ceil(sqrt(count)) columns and ceil(count / columns) rows,
\* whatever single value was supplied; for count >= 1 the output has exactly
\* ceil(sqrt(count)) distinct x values and columns * rows >= count.
C11_GridDerived ==
    (called = "calculateGridLayout" /\ (args.columns = <<>> \/ args.rows = <<>>))
        => LET count == args.mediaCount
               gap == OrDefault(args.gap, 0)
               columns == LeastSquareSide(count)
               rows == LeastRows(count, columns)
           IN  /\ Len(result) = count
               /\ count >= 1 =>
                    LET cellWidth == (args.canvasWidth - gap * (columns + 1)) \div columns
                        cellHeight == (args.canvasHeight - gap * (rows + 1)) \div rows
                    IN  /\ columns * rows >= count
                        /\ Cardinality({ result[k].x : k \in 1..count }) = columns
                        /\ \A k \in 1..count :
                              /\ result[k].width = cellWidth
                              /\ result[k].height = cellHeight
                              /\ result[k].x = gap + ((k - 1) % columns) * (cellWidth + gap)
                              /\ result[k].y = gap + ((k - 1) \div columns) * (cellHeight + gap)

\* nine cells, 2 columns supplied without rows: three distinct x values
C11_Witness ==
    /\ called = "calculateGridLayout"
    /\ args.mediaCount = 9
    /\ args.columns = <<2>>
    /\ args.rows = <<>>
    /\ Cardinality({ result[k].x : k \in 1..Len(result) }) = 3

----------------------------------------------------------------------------
(* Properties of calculateDynamicLayout on a single item *)

DynamicSingleCase == DynamicCalled /\ Len(snapshot) = 1

\* C12: calculateDynamicLayout on one item returns one rectangle with the
\* item's index.  An item wider than the canvas (aspect > canvasWidth /
\* canvasHeight) gets x = gap, width = canvasWidth - 2*gap, height =
\* floor(width / aspect) and y = floor((canvasHeight - height) / 2); any other
\* item gets y = gap, height = canvasHeight - 2*gap, width =
\* floor(height * aspect) and x = floor((canvasWidth - width) / 2).  The
\* floors are written as the two inequalities that define them, on the
\* numerator n and denominator d of the aspect.
C12_SingleItemCentered ==
    DynamicSingleCase
        => /\ Len(result) = 1
           /\ LET n == snapshot[1].aspect[1]
                  d == snapshot[1].aspect[2]
                  W == args.canvasWidth
                  H == args.canvasHeight
                  gap == OrDefault(args.gap, 0)
                  r == result[1]
              IN  /\ r.mediaIndex = snapshot[1].index
                  /\ n * H > d * W
                       => /\ r.x = gap
                          /\ r.width = W - 2 * gap
                          /\ r.height * n <= r.width * d
                          /\ r.width * d < (r.height + 1) * n
                          /\ 2 * r.y <= H - r.height
                          /\ H - r.height <= 2 * r.y + 1
                  /\ n * H <= d * W
                       => /\ r.y = gap
                          /\ r.height = H - 2 * gap
                          /\ r.width * d <= r.height * n
                          /\ r.height * n < (r.width + 1) * d
                          /\ 2 * r.x <= W - r.width
                          /\ W - r.width <= 2 * r.x + 1

\* a 16:9 item on the 192 x 108 canvas (aspect equal to the canvas's) with a
\* gap: it takes the full available height
C12_Witness ==
    /\ DynamicSingleCase
    /\ snapshot[1].aspect = <<16, 9>>
    /\ args.canvasWidth = 192
    /\ args.canvasHeight = 108
    /\ args.gap = <<5>>
    /\ result[1].height = 98
    /\ result[1].y = 5

----------------------------------------------------------------------------
(* Properties of calculateTreemapLayout on a single item *)

TreemapCalled ==
    \/ called = "calculateTreemapLayout"
    \/ called = "calculateLayout" /\ args.type = "treemap"

\* C13: calculateTreemapLayout on one item returns exactly one rectangle, at
\* x = gap, y = gap, of width canvasWidth - 2*gap and height canvasHeight -
\* 2*gap, whatever the item's aspect and area.
C13_TreemapSingleFills ==
    (TreemapCalled /\ Len(snapshot) = 1)
        => LET gap == OrDefault(args.gap, 0)
           IN  /\ Len(result) = 1
               /\ result[1].x = gap
               /\ result[1].y = gap
               /\ result[1].width = args.canvasWidth - 2 * gap
               /\ result[1].height = args.canvasHeight - 2 * gap

\* one item that carries an area, on a canvas with a gap
C13_Witness ==
    /\ called = "calculateTreemapLayout"
    /\ Len(snapshot) = 1
    /\ snapshot[1].area # <<>>
    /\ args.gap = <<5>>
    /\ Len(result) = 1
    /\ result[1].x = 5

----------------------------------------------------------------------------
(* Properties of calculateMasonryLayout *)

MasonryCalled ==
    \/ called = "calculateMasonryLayout"
    \/ called = "calculateLayout" /\ args.type = "masonry"

MasonryCols == IF Falsy(args.columns) THEN Max(2, LeastSquareSide(Len(snapshot))) ELSE args.columns[1]

MasonryColWidth ==
    (args.canvasWidth - OrDefault(args.gap, 0) * (MasonryCols + 1)) \div MasonryCols

\* the rectangles as the placement loop pushed them, before the final
\* correction of y and height
MasonryPlaced ==
    masonryPlace(snapshot, 1, [c \in 1..MasonryCols |-> OrDefault(args.gap, 0)], <<>>,
                 MasonryColWidth, OrDefault(args.gap, 0)).positions

\* x of column c (0-based)
ColumnX(c) == OrDefault(args.gap, 0) + c * (MasonryColWidth + OrDefault(args.gap, 0))

\* running height of column c when the i-th rectangle of placed is placed:
\* gap plus height + gap of every earlier rectangle of that column
RECURSIVE RunningHeight(_, _, _)
RunningHeight(placed, i, c) ==
    IF i = 1 THEN OrDefault(args.gap, 0)
    ELSE RunningHeight(placed, i - 1, c)
         + (IF placed[i - 1].x = ColumnX(c)
            THEN placed[i - 1].height + OrDefault(args.gap, 0)
            ELSE 0)

\* C14: the placement loop of calculateMasonryLayout takes the items in input
\* order and puts each one in the first column of minimal running height, at
\* that column's x and at y = the running height, colWidth wide and
\* floor(colWidth / aspect) high, the running heights starting at gap and
\* growing by height + gap in the chosen column only; the output keeps these
\* x, width and mediaIndex values (and y and height too when no correction of
\* the height is needed), so it has at most cols distinct x values.
C14_MasonryShortestColumn ==
    (MasonryCalled /\ Len(snapshot) >= 1)
        => LET placed == MasonryPlaced
               cols == MasonryCols
           IN  /\ Len(placed) = Len(snapshot)
               /\ Len(result) = Len(snapshot)
               /\ \A i \in 1..Len(placed) :
                     /\ placed[i].mediaIndex = snapshot[i].index
                     /\ placed[i].width = MasonryColWidth
                     /\ placed[i].height * snapshot[i].aspect[1]
                            <= MasonryColWidth * snapshot[i].aspect[2]
                     /\ MasonryColWidth * snapshot[i].aspect[2]
                            < (placed[i].height + 1) * snapshot[i].aspect[1]
                     /\ \E c \in 0..(cols - 1) :
                           /\ placed[i].x = ColumnX(c)
                           /\ placed[i].y = RunningHeight(placed, i, c)
                           /\ \A b \in 0..(cols - 1) :
                                 RunningHeight(placed, i, b) >= RunningHeight(placed, i, c)
                           /\ \A b \in 0..(c - 1) :
                                 RunningHeight(placed, i, b) > RunningHeight(placed, i, c)
                     /\ result[i].x = placed[i].x
                     /\ result[i].width = placed[i].width
                     /\ result[i].mediaIndex = placed[i].mediaIndex
               /\ (\A c \in 0..(cols - 1) :
                      RunningHeight(placed, Len(placed) + 1, c) <= args.canvasHeight)
                    => result = placed
               /\ Cardinality({ result[i].x : i \in 1..Len(result) }) <= cols

\* three items in 2 columns: the third goes under the shorter of the first
\* two, which is not the first column
C14_Witness ==
    /\ called = "calculateMasonryLayout"
    /\ args.columns = <<2>>
    /\ Len(result) = 3
    /\ result[1].x = ColumnX(0)
    /\ result[2].x = ColumnX(1)
    /\ result[3].x = ColumnX(1)

----------------------------------------------------------------------------
(* clampPositions on rectangles that already fit *)

\* C15: a rectangle with x >= 0, y >= 0, x + width <= canvasWidth and
\* y + height <= canvasHeight comes back from clampPositions with the same
\* x, y, width, height and mediaIndex.
C15_ClampKeepsValid ==
    ClampCalled
        => /\ Len(result) = Len(snapshot)
           /\ \A i \in 1..Len(snapshot) :
                 InCanvas(snapshot[i], args.canvasWidth, args.canvasHeight)
                    => result[i] = snapshot[i]

\* a rectangle that spans the whole width of the 100 x 100 canvas
C15_Witness ==
    /\ called = "clampPositions"
    /\ Len(snapshot) = 1
    /\ args.canvasWidth = 100
    /\ snapshot[1] = [x |-> 0, y |-> 30, width |-> 100, height |-> 50, mediaIndex |-> 0]
    /\ result = snapshot

----------------------------------------------------------------------------
(* Properties of mediaToLayoutItem *)

\* C16: mediaToLayoutItem(info, index) returns an item with the given index,
\* with aspect info.width / info.height when a descriptor is given and 16 / 9
\* when it is absent, and without an area.  The aspect n / d is compared by
\* cross-multiplication.
C16_MediaToLayoutItem ==
    called = "mediaToLayoutItem"
        => /\ result.index = args.index
           /\ result.area = <<>>
           /\ result.aspect[2] > 0
           /\ args.info # <<>>
                => result.aspect[1] * args.info[1].height
                     = result.aspect[2] * args.info[1].width
           /\ args.info = <<>>
                => result.aspect[1] * 9 = result.aspect[2] * 16

\* no descriptor, index 5
C16_Witness ==
    /\ called = "mediaToLayoutItem"
    /\ args.info = <<>>
    /\ args.index = 5
    /\ result.aspect = <<16, 9>>

----------------------------------------------------------------------------
(* Properties of the rows of calculateDynamicLayout *)

\* the i-th cell of row r of the call, in the output
CellOf(rows, r, i) == result[CellsBefore(rows, r) + i]

\* C17: in every row of a dynamic layout of two or more items the first cell
\* starts at x = gap, each following cell starts gap pixels after the right
\* edge of the one before, every cell but the last is floor(rowHeight *
\* aspect) wide, and the last cell ends at canvasWidth - gap with a width
\* that is not negative.
C17_RowWalk ==
    DynamicRowsCase
        => LET rows == RowsOfCall
               gap == OrDefault(args.gap, 0)
           IN  \A r \in 1..Len(rows) : \A i \in 1..Len(rows[r]) :
                  LET cell == CellOf(rows, r, i)
                  IN  /\ i = 1 => cell.x = gap
                      /\ i > 1 => cell.x = CellOf(rows, r, i - 1).x
                                           + CellOf(rows, r, i - 1).width + gap
                      /\ i < Len(rows[r]) => cell.width = WidthFromAspect(cell, rows[r][i])
                      /\ i = Len(rows[r])
                           => /\ cell.x + cell.width = args.canvasWidth - gap
                              /\ cell.width >= 0

\* h = floor(v) for a rational v, as the two inequalities h <= v < h + 1
IsFloorOf(h, v) == ~RLess(v, Num(h)) /\ RLess(v, Num(h + 1))

\* bottom edge of the last row of the output
LastRowBottom == result[Len(result)].y + result[Len(result)].height

----------------------------------------------------------------------------
(* Properties of partitionIntoRows *)

RECURSIVE Flat(_)
Flat(rows) == IF rows = <<>> THEN <<>> ELSE Head(rows) \o Flat(Tail(rows))

\* N / (canvasAspect / averageAspect) of the call
RowsRadicand ==
    RDiv(Num(Len(snapshot)),
         RDiv(Rat(args.canvasWidth, args.canvasHeight),
              RDiv(SumAspect(snapshot), Num(Len(snapshot)))))

\* t = max(1, round(sqrt(q))): t - 1/2 <= sqrt(q) < t + 1/2, the lower limit
\* dropped for t = 1
IsTargetRows(t, q) ==
    /\ t >= 1
    /\ RLess(RMul(Num(4), q), Num((2 * t + 1) * (2 * t + 1)))
    /\ t > 1 => ~RLess(RMul(Num(4), q), Num((2 * t - 1) * (2 * t - 1)))

\* C19: with targetRows = max(1, round(sqrt(N / (canvasAspect /
\* averageAspect)))) and targetItemsPerRow = ceil(N / targetRows), the rows
\* are consecutive runs of the items in descending order of aspect, each
\* item in one row, no row empty and none longer than targetItemsPerRow + 1;
\* rows are filled to targetItemsPerRow, and a leftover of one item is added
\* to the row before it (which then holds targetItemsPerRow + 1 items), any
\* other leftover being a row of its own.  The cells of the output follow
\* the rows in order.
C19_RowsPartition ==
    DynamicRowsCase
        => LET rows == RowsOfCall
               flat == Flat(rows)
               N == Len(snapshot)
               targetRows == targetRowsOf(snapshot, args.canvasWidth, args.canvasHeight)
               perRow == LeastRows(N, targetRows)
               full == N \div perRow
               rest == N % perRow
           IN  /\ IsTargetRows(targetRows, RowsRadicand)
               /\ Len(flat) = N
               /\ { flat[k] : k \in 1..N } = { snapshot[k] : k \in 1..N }
               /\ \A k \in 1..(N - 1) : ~RLess(flat[k].aspect, flat[k + 1].aspect)
               /\ \A r \in 1..Len(rows) : Len(rows[r]) >= 1 /\ Len(rows[r]) <= perRow + 1
               /\ \A r \in 1..(Len(rows) - 1) : Len(rows[r]) = perRow
               /\ rest = 0 => Len(rows) = full /\ Len(rows[full]) = perRow
               /\ (rest = 1 /\ full >= 1) => Len(rows) = full /\ Len(rows[full]) = perRow + 1
               /\ (rest > 1 \/ (rest = 1 /\ full = 0))
                    => Len(rows) = full + 1 /\ Len(rows[full + 1]) = rest
               /\ Len(result) = N
               /\ \A k \in 1..N : result[k].mediaIndex = flat[k].index

\* three items, two rows aimed at: the third item is left over and joins
\* the first two
C19_Witness ==
    /\ DynamicRowsCase
    /\ Len(snapshot) = 3
    /\ targetRowsOf(snapshot, args.canvasWidth, args.canvasHeight) = 2
    /\ Len(RowsOfCall) = 1
    /\ Len(result) = 3

----------------------------------------------------------------------------
(* The gap around a single item *)

\* C20: the rectangle calculateDynamicLayout returns for a single item stays
\* gap pixels away from the four edges of the canvas, for every gap with
\* 2*gap below both canvas dimensions.
C20_GapAroundSingle ==
    (DynamicSingleCase /\ 2 * OrDefault(args.gap, 0) < args.canvasWidth
                       /\ 2 * OrDefault(args.gap, 0) < args.canvasHeight)
        => LET gap == OrDefault(args.gap, 0)
               r == result[1]
           IN  /\ r.x >= gap
               /\ r.y >= gap
               /\ r.x + r.width <= args.canvasWidth - gap
               /\ r.y + r.height <= args.canvasHeight - gap

----------------------------------------------------------------------------
(* The height correction of calculateMasonryLayout *)

\* final running height of the tallest column
MasonryMaxHeight ==
    LET final == { RunningHeight(MasonryPlaced, Len(snapshot) + 1, c) : c \in 0..(MasonryCols - 1) }
    IN  CHOOSE m \in final : \A h \in final : h <= m

MasonryCorrected == MasonryMaxHeight > args.canvasHeight

\* C21: the height correction of calculateMasonryLayout runs exactly when the
\* tallest column's final running height exceeds canvasHeight; it then
\* replaces y and height of every rectangle by floor(y * s) and
\* floor(height * s), s = (canvasHeight - gap) / maxColumnHeight, and keeps
\* x, width, mediaIndex and the order; otherwise the rectangles are returned
\* as placed.
C21_MasonryHeightCorrection ==
    (MasonryCalled /\ Len(snapshot) >= 1)
        => LET placed == MasonryPlaced
               s == Rat(args.canvasHeight - OrDefault(args.gap, 0), MasonryMaxHeight)
           IN  /\ Len(result) = Len(placed)
               /\ ~MasonryCorrected => result = placed
               /\ MasonryCorrected
                    => \A i \in 1..Len(placed) :
                          /\ result[i].x = placed[i].x
                          /\ result[i].width = placed[i].width
                          /\ result[i].mediaIndex = placed[i].mediaIndex
                          /\ IsFloorOf(result[i].y, RMul(Num(placed[i].y), s))
                          /\ IsFloorOf(result[i].height, RMul(Num(placed[i].height), s))

\* a corrected layout in which a rectangle placed below another one moved up
C21_Witness ==
    /\ called = "calculateMasonryLayout"
    /\ MasonryCorrected
    /\ \E i \in 1..Len(result) :
          /\ MasonryPlaced[i].y > OrDefault(args.gap, 0)
          /\ result[i].y < MasonryPlaced[i].y
          /\ result[i].y > 0

----------------------------------------------------------------------------
(* Containment and disjointness of the masonry layout *)

\* two rectangles share interior points
Overlap(a, b) ==
    /\ a.x < b.x + b.width
    /\ b.x < a.x + a.width
    /\ a.y < b.y + b.height
    /\ b.y < a.y + a.height

----------------------------------------------------------------------------
(* Properties of squarify and layoutRow *)

\* the free rectangle calculateTreemapLayout starts from, and its items
TreemapRect ==
    LET gap == OrDefault(args.gap, 0)
    IN  [x |-> Num(gap), y |-> Num(gap),
         width |-> Num(args.canvasWidth - gap * 2),
         height |-> Num(args.canvasHeight - gap * 2)]

TreemapItems ==
    weightedItemsOf(snapshot, args.canvasWidth, args.canvasHeight, OrDefault(args.gap, 0))

ShortSide(rect) == IF RLess(rect.width, rect.height) THEN rect.width ELSE rect.height

\* the free rectangle after a row of the given items is cut from it
RectAfterRow(rect, row) ==
    LET rowSize == RDiv(SumArea(row), ShortSide(rect))
    IN  IF RLess(rect.width, rect.height)
        THEN [rect EXCEPT !.y = RAdd(@, rowSize), !.height = RSub(@, rowSize)]
        ELSE [rect EXCEPT !.x = RAdd(@, rowSize), !.width = RSub(@, rowSize)]

\* the calls of layoutRow made by the loop of squarify: the remaining items
\* and the free rectangle of each iteration
RECURSIVE LayoutRowCalls(_, _)
LayoutRowCalls(remaining, rect) ==
    IF Len(remaining) = 0 THEN <<>>
    ELSE LET lr == layoutRow(remaining, ShortSide(rect))
         IN  <<[items |-> remaining, rect |-> rect]>>
             \o LayoutRowCalls(lr.rest, RectAfterRow(rect, lr.row))

\* worst aspect ratio of the first k of the items as a row along side: the
\* largest of max(thickness / extent, extent / thickness) over its members
WorstOfPrefix(arr, k, side) ==
    LET thickness == RDiv(SumArea(SubSeq(arr, 1, k)), side)
        ratios == { RMax(RDiv(thickness, RDiv(arr[i].area, thickness)),
                         RDiv(RDiv(arr[i].area, thickness), thickness)) : i \in 1..k }
    IN  CHOOSE w \in ratios : \A v \in ratios : ~RLess(w, v)

\* C23: given two or more remaining items and the short side, layoutRow
\* returns as row a prefix of at least one item and as rest the suffix that
\* follows; no item of the row made the worst aspect ratio larger when it
\* was added, and the first item of rest, if any, would make it strictly
\* larger.
C23_LayoutRowStops ==
    (TreemapCalled /\ Len(snapshot) >= 2)
        => LET calls == LayoutRowCalls(TreemapItems, TreemapRect)
           IN  \A c \in 1..Len(calls) :
                  Len(calls[c].items) >= 2
                    => LET arr == calls[c].items
                           side == ShortSide(calls[c].rect)
                           lr == layoutRow(arr, side)
                           L == Len(lr.row)
                       IN  /\ L >= 1
                           /\ lr.row = SubSeq(arr, 1, L)
                           /\ lr.rest = SubSeq(arr, L + 1, Len(arr))
                           /\ \A k \in 2..L :
                                 ~RLess(WorstOfPrefix(arr, k - 1, side),
                                        WorstOfPrefix(arr, k, side))
                           /\ L < Len(arr)
                                => RLess(WorstOfPrefix(arr, L, side),
                                         WorstOfPrefix(arr, L + 1, side))

\* a call that accepted a second item and rejected the third
C23_Witness ==
    /\ TreemapCalled
    /\ Len(snapshot) = 3
    /\ LET lr == layoutRow(TreemapItems, ShortSide(TreemapRect))
       IN  Len(lr.row) = 2 /\ Len(lr.rest) = 1
    /\ Len(result) = 3

\* mediaIndex values of a list of rectangles, index values of a list of items
MediaIndexSeq(posArr) == [i \in 1..Len(posArr) |-> posArr[i].mediaIndex]

IndexSeq(arr) == [i \in 1..Len(arr) |-> arr[i].index]

\* one iteration of the loop of squarify: a prefix of at least one item
\* leaves remaining, and one rectangle per item of the prefix, in its order,
\* is added to the positions
IterationClosesRow ==
    (called = "squarify" /\ called' = "squarify")
        => LET taken == Len(args.remaining) - Len(args'.remaining)
           IN  /\ taken >= 1
               /\ args'.remaining = SubSeq(args.remaining, taken + 1, Len(args.remaining))
               /\ Len(args'.emitted) = Len(args.emitted) + taken
               /\ SubSeq(args'.emitted, 1, Len(args.emitted)) = args.emitted
               /\ MediaIndexSeq(SubSeq(args'.emitted, Len(args.emitted) + 1, Len(args'.emitted)))
                     = IndexSeq(SubSeq(args.remaining, 1, taken))
               /\ args'.iterations <= Len(snapshot)

\* the call has returned with one rectangle for each item, the rectangles
\* being those of the loop run as a whole
TreemapReturnedAll ==
    called = "calculateTreemapLayout"
        => /\ Len(result) = Len(snapshot)
           /\ MediaIndexSet(result) = IndexSet(snapshot)
           /\ args.remaining = <<>>
           /\ args.iterations <= Len(snapshot)
           /\ result = calculateTreemapLayout(snapshot, args.canvasWidth,
                                              args.canvasHeight, args.gap)

\* the iterations done and the items still to place never exceed N together
LoopWithinBound ==
    called = "squarify" => args.iterations + Len(args.remaining) <= Len(snapshot)

\* C24: the loop of squarify terminates on every item list: every iteration
\* takes a row of at least one item off the remaining list and emits one
\* rectangle for each item taken, so the length of the remaining list falls
\* with every iteration and the loop is left after N iterations at most,
\* with every item placed once and none left.
C24_SquarifyTerminates ==
    /\ [][IterationClosesRow]_vars
    /\ []LoopWithinBound
    /\ []TreemapReturnedAll

\* a call on three items has returned after two iterations
C24_Witness ==
    /\ called = "calculateTreemapLayout"
    /\ Len(snapshot) = 3
    /\ args.iterations = 2
    /\ Len(result) = 3

----------------------------------------------------------------------------
(* Containment, disjointness and areas of the treemap layout *)

\* weight of an item of the call: its area if supplied, else max(1, aspect)
WeightOfItem(item) == IF item.area # <<>> THEN item.area[1] ELSE RMax(Num(1), item.aspect)

RECURSIVE SumWeights(_)
SumWeights(arr) ==
    IF arr = <<>> THEN Num(0) ELSE RAdd(SumWeights(Tail(arr)), WeightOfItem(Head(arr)))

\* the weight as a share of (canvasWidth - 2*gap) * (canvasHeight - 2*gap)
NormalisedArea(item) ==
    LET gap == OrDefault(args.gap, 0)
    IN  RMul(RDiv(WeightOfItem(item), SumWeights(snapshot)),
             Num((args.canvasWidth - 2 * gap) * (args.canvasHeight - 2 * gap)))

\* C25: every rectangle of a treemap layout lies within the canvas inset by
\* gap on all four sides, no two rectangles overlap, and the area of a
\* rectangle is at most the normalised area of its item.
C25_TreemapContained ==
    (TreemapCalled /\ Len(snapshot) >= 1)
        => LET gap == OrDefault(args.gap, 0)
           IN  /\ \A i \in 1..Len(result) :
                     /\ result[i].x >= gap
                     /\ result[i].y >= gap
                     /\ result[i].x + result[i].width <= args.canvasWidth - gap
                     /\ result[i].y + result[i].height <= args.canvasHeight - gap
                     /\ ~RLess(NormalisedArea(ItemOf(result[i])),
                               Num(result[i].width * result[i].height))
               /\ \A i \in 1..Len(result) : \A j \in (i + 1)..Len(result) :
                     ~Overlap(result[i], result[j])

\* three rectangles in two rows, on a canvas with a gap
C25_Witness ==
    /\ called = "calculateTreemapLayout"
    /\ args.gap = <<5>>
    /\ Len(result) = 3
    /\ Len(LayoutRowCalls(TreemapItems, TreemapRect)) = 2
    /\ \A i \in 1..3 : result[i].width > 0 /\ result[i].height > 0

----------------------------------------------------------------------------
(* The shelves of calculatePackLayout *)

PackCalled ==
    \/ called = "calculatePackLayout"
    \/ called = "calculateLayout" /\ args.type = "pack"

\* the rectangles as the shelf loop pushed them, before the final scaling
PackPlaced ==
    LET itemDims == itemDimsOf(snapshot, args.canvasWidth, args.canvasHeight)
    IN  packPlace(SortDesc(itemDims, Heights(itemDims)), 1, <<>>, <<>>,
                  args.canvasWidth, OrDefault(args.gap, 0)).positions

\* the shelves that exist when the i-th rectangle is placed, by their y, and
\* what the earlier rectangles make of them: a shelf is as high as the first
\* rectangle put on it and as wide as the sum of width + gap of its rectangles
ShelfYs(placed, i) == { placed[k].y : k \in 1..(i - 1) }

ShelfMembers(placed, i, y) == { k \in 1..(i - 1) : placed[k].y = y }

ShelfHeight(placed, i, y) ==
    placed[CHOOSE k \in ShelfMembers(placed, i, y) :
              \A m \in ShelfMembers(placed, i, y) : k <= m].height

RECURSIVE ShelfWidth(_, _, _)
ShelfWidth(placed, i, y) ==
    IF i = 1 THEN 0
    ELSE ShelfWidth(placed, i - 1, y)
         + (IF placed[i - 1].y = y THEN placed[i - 1].width + OrDefault(args.gap, 0) ELSE 0)

\* shelves are created top to bottom: the earliest-created is the one of least y
ShelfTakes(placed, i, y) ==
    /\ ShelfWidth(placed, i, y) + placed[i].width + OrDefault(args.gap, 0) <= args.canvasWidth
    /\ placed[i].height <= ShelfHeight(placed, i, y)

\* w = floor(sqrt(canvasWidth * canvasHeight / N) * aspect), as w^2 <= A * aspect^2 < (w + 1)^2
IsProvisionalWidth(w, aspect) ==
    LET v == RMul(Rat(args.canvasWidth * args.canvasHeight, Len(snapshot)), RMul(aspect, aspect))
    IN  ~RLess(v, Num(w * w)) /\ RLess(v, Num((w + 1) * (w + 1)))

\* C26: calculatePackLayout places the items, by provisional height
\* descending, first-fit on shelves: an item goes on the earliest-created
\* shelf with shelf.width + item.width + gap <= canvasWidth and item.height <=
\* shelf.height, at x = shelf.width + gap and y = shelf.y; when no shelf
\* takes it, a new shelf is opened at y = gap (first shelf) or gap below the
\* bottom of the last shelf, with the item at x = gap.  The output holds one
\* rectangle for each placed one, in the same order.
C26_PackFirstFit ==
    (PackCalled /\ Len(snapshot) >= 1)
        => LET placed == PackPlaced
               gap == OrDefault(args.gap, 0)
           IN  /\ Len(placed) = Len(snapshot)
               /\ MediaIndexSet(placed) = IndexSet(snapshot)
               /\ MediaIndexSeq(result) = MediaIndexSeq(placed)
               /\ \A i \in 1..Len(placed) :
                     LET ys == ShelfYs(placed, i)
                         takers == { y \in ys : ShelfTakes(placed, i, y) }
                     IN  /\ i > 1 => placed[i].height <= placed[i - 1].height
                         /\ IsProvisionalWidth(placed[i].width, ItemOf(placed[i]).aspect)
                         /\ takers # {}
                              => LET y == CHOOSE t \in takers : \A u \in takers : t <= u
                                 IN  /\ placed[i].y = y
                                     /\ placed[i].x = ShelfWidth(placed, i, y) + gap
                         /\ (takers = {} /\ ys = {})
                              => placed[i].x = gap /\ placed[i].y = gap
                         /\ (takers = {} /\ ys # {})
                              => LET last == CHOOSE t \in ys : \A u \in ys : u <= t
                                 IN  /\ placed[i].x = gap
                                     /\ placed[i].y = last + ShelfHeight(placed, i, last) + gap

\* two shelves, and a third item that fits on both: it goes on the first
C26_Witness ==
    /\ called = "calculatePackLayout"
    /\ Len(snapshot) = 3
    /\ PackPlaced[2].y > PackPlaced[1].y
    /\ PackPlaced[3].y = PackPlaced[1].y
    /\ ShelfTakes(PackPlaced, 3, PackPlaced[2].y)

----------------------------------------------------------------------------
(* Containment and disjointness of the pack layout *)

\* the factor of the final scaling: the smaller of (canvasWidth - 2*gap) / maxX
\* and (canvasHeight - 2*gap) / maxY over the placed rectangles
PackScale ==
    LET placed == PackPlaced
        gap == OrDefault(args.gap, 0)
        rights == { placed[i].x + placed[i].width : i \in 1..Len(placed) }
        bottoms == { placed[i].y + placed[i].height : i \in 1..Len(placed) }
        maxX == CHOOSE m \in rights : \A v \in rights : v <= m
        maxY == CHOOSE m \in bottoms : \A v \in bottoms : v <= m
    IN  RMin(Rat(args.canvasWidth - 2 * gap, maxX), Rat(args.canvasHeight - 2 * gap, maxY))

----------------------------------------------------------------------------
(* Containment and disjointness of the grid layout *)

\* two rectangles are d pixels apart or more, along x or along y
Apart(a, b, d) ==
    \/ a.x + a.width + d <= b.x
    \/ b.x + b.width + d <= a.x
    \/ a.y + a.height + d <= b.y
    \/ b.y + b.height + d <= a.y

\* C28: for count >= 1 and columns and rows, supplied or derived, that give a
\* positive cell width and height, every cell of calculateGridLayout lies
\* within the canvas inset by gap on all four sides, and any two cells are
\* disjoint and gap pixels apart or more.
C28_GridTiles ==
    (called = "calculateGridLayout" /\ Len(result) >= 1
        /\ result[1].width > 0 /\ result[1].height > 0)
        => LET gap == OrDefault(args.gap, 0)
           IN  /\ \A i \in 1..Len(result) :
                     /\ result[i].x >= gap
                     /\ result[i].y >= gap
                     /\ result[i].x + result[i].width <= args.canvasWidth - gap
                     /\ result[i].y + result[i].height <= args.canvasHeight - gap
               /\ \A i \in 1..Len(result) : \A j \in (i + 1)..Len(result) :
                     /\ ~Overlap(result[i], result[j])
                     /\ Apart(result[i], result[j], gap)

----------------------------------------------------------------------------
(* Properties of generateCollage's FFmpeg run and fallback *)

\* the FFmpeg run that this step adds to the list of runs
FfmpegRan == Len(result') = Len(result) + 1

LastRun == result'[Len(result')]

\* this step makes the fallback call
FallsBack ==
    /\ Len(args') = Len(args) + 1
    /\ args'[Len(args')].kind = "retry"

\* a retry is the hybrid mode (NVENC without CUDA filters), is made by a call
\* that is not itself a retry, and its FFmpeg runs use no CUDA filters
RetryIsHybrid ==
    /\ \A k \in 1..Len(args) :
          args[k].kind = "retry" =>
             /\ args[k].config.gpu
             /\ ~args[k].config.gpuExperimental
             /\ ~useCudaFilters(args[k].config)
             /\ k > 1
             /\ args[k - 1].kind # "retry"
             /\ args[k - 1].config.gpuExperimental
             /\ args[k].config.batches = args[k - 1].config.batches
    /\ \A j \in 1..Len(result) :
          result[j].retry => ~result[j].cuda /\ result[j].nvenc

FallbackStep ==
    /\ (FfmpegRan /\ LastRun.exit = "cuda error" /\ LastRun.cuda) =>
          /\ FallsBack
          /\ ~LastRun.retry
          /\ called' = "generateCollage"
    /\ FallsBack =>
          /\ FfmpegRan
          /\ LastRun.exit = "cuda error"
          /\ LastRun.cuda
          /\ ~LastRun.retry
    /\ (FfmpegRan /\ LastRun.exit # "ok"
           /\ ~(LastRun.exit = "cuda error" /\ LastRun.cuda)) =>
          called' = "generateCollage threw"
    /\ (FfmpegRan /\ LastRun.retry /\ LastRun.exit # "ok") =>
          called' = "generateCollage threw"
    /\ (positions \ positions' # {}) =>
          /\ FfmpegRan
          /\ LastRun.exit = "ok"

\* C29: a generateCollage call falls back at most once: a non-zero exit with
\* a CUDA-related error while the CUDA filters are in use makes one retry
\* call with gpu = true and gpuExperimental = false, and nothing else makes
\* one; the retry uses no CUDA filters and is never itself retried; every
\* other non-zero exit, and every non-zero exit of the retry, ends the call
\* with a thrown error; temporary batch files leave the disk only in the
\* step of an FFmpeg run that exits with code 0.
C29_FallbackAtMostOnce == [][FallbackStep]_vars /\ []RetryIsHybrid

\* a call that returned after its CUDA run failed and its hybrid retry
\* succeeded, with the batch files of the failed attempt still on disk
C29_Witness ==
    /\ called = "generateCollage returned"
    /\ positions # {}
    /\ \E j \in 1..Len(result) :
          /\ result[j].cuda
          /\ result[j].exit = "cuda error"
          /\ result[Len(result)].retry
          /\ result[Len(result)].exit = "ok"
          /\ j < Len(result)

----------------------------------------------------------------------------
(* Properties of getMediaInfoBatch *)

BatchRunning ==
    called \in { "getMediaInfoBatch", "getMediaInfoBatch returned",
                 "getMediaInfoBatch threw" }

InFlight == { k \in 1..Len(positions) : positions[k] = "in flight" }

Settled == { k \in 1..Len(positions) : positions[k] \in { "fulfilled", "rejected" } }

\* the positions of the group that position k belongs to
GroupOf(k) ==
    { j \in 1..Len(positions) : (j - 1) \div BATCH_SIZE = (k - 1) \div BATCH_SIZE }

\* C30: at most 8 probes are in flight; the probes in flight are one group
\* of consecutive positions, at most 8 long, and all probes of the groups
\* before it are settled while no probe of a later group has started; the
\* call never throws, whatever the probes do; the stored keys are paths
\* whose probe succeeded, and the returned map has exactly the paths with a
\* successful probe, every probe having settled.
C30_BatchedProbes ==
    BatchRunning =>
        /\ Cardinality(InFlight) <= BATCH_SIZE
        /\ \A k \in InFlight :
              /\ InFlight \subseteq GroupOf(k)
              /\ GroupOf(k) \subseteq InFlight \cup Settled
              /\ Cardinality(GroupOf(k)) <= BATCH_SIZE
              /\ \A j \in 1..Len(positions) :
                    /\ (j < k /\ j \notin GroupOf(k)) => j \in Settled
                    /\ (j > k /\ j \notin GroupOf(k)) => positions[j] = "waiting"
        /\ called # "getMediaInfoBatch threw"
        /\ result \subseteq { args.filePaths[k] : k \in { j \in Settled : positions[j] = "fulfilled" } }
        /\ called = "getMediaInfoBatch returned" =>
              /\ Settled = 1..Len(positions)
              /\ result = { args.filePaths[k] : k \in { j \in Settled : positions[j] = "fulfilled" } }

\* a returned call over more than 8 paths with a failed probe in each group
C30_Witness ==
    /\ called = "getMediaInfoBatch returned"
    /\ Len(positions) > BATCH_SIZE
    /\ \E j \in 1..BATCH_SIZE : positions[j] = "rejected"
    /\ \E j \in (BATCH_SIZE + 1)..Len(positions) : positions[j] = "rejected"
    /\ result # {}
    /\ Cardinality(result) < Cardinality(Settled)

============================================================================
